---- MODULE Spec2Model ----
(***************************************************************************)
(* Fstyle: the reference-counted injection cache ("context").              *)
(*                                                                         *)
(* The generations of the context are modelled over the same variables:    *)
(*   - the context that exposes require and dispose                        *)
(*     (src/fstyle.js lines 450-552), specification Spec;                  *)
(*   - the validating context that returns a require function              *)
(*     (src/unnamed/part_002 lines 608-662), specification SpecV, and      *)
(*     SpecT when its inserter may throw;                                  *)
(*   - the context of src/fstyle.js with rule, css, fragify, encode and    *)
(*     its classifier, specification SpecS;                                *)
(*   - the context of src/unnamed/part_002 lines 286-347 with rule, render *)
(*     and the development and production classifiers, specification       *)
(*     SpecP;                                                              *)
(*   - the stylers of the snapshots called one by one, without a context:  *)
(*     rule and fragment with data (src/unnamed/part_002 lines 67-144),    *)
(*     rule and css of src/fstyle.js, and the stylers given a name with    *)
(*     place, identify and mix (src/unnamed/part_002 lines 406-600,        *)
(*     src/unnamed/part_001, src/fstyle.js lines 1-130), specification     *)
(*     SpecF;                                                              *)
(*   - encode applied to one string, specification SpecE;                  *)
(*   - the context of src/fstyle.js lines 450-552 whose removers call      *)
(*     require, specification SpecR;                                       *)
(*   - the context that counts (src/fstyle.js lines 193-238),              *)
(*     specification SpecN;                                                *)
(*   - two contexts of src/fstyle.js lines 450-552, specification SpecC.   *)
(*                                                                         *)
(* A JavaScript string is a tuple of one-character strings.  A JavaScript  *)
(* value is a record [type, chars]: type is the result of typeof, chars    *)
(* the result of String(value).  A fresh object ({} or an object literal)  *)
(* is named by the moment of its creation.                                 *)
(***************************************************************************)
EXTENDS Integers, Sequences, FiniteSets, TLC

\* Number of require calls made on one context, and of stylers called with
\* one classifier.
MaxCalls == 3

VARIABLES
    insert,         \* the 'insert' capability: "inserter", or "undefined" after dispose
    requisitions,   \* the table: class string -> requisition object (a heap address)
    heap,           \* the requisition objects ever made: statements, remove, references
    handles,        \* the handles returned by require: classes and releasers
    calls,          \* how many times require has been called
    inserted,       \* the inserter's calls, in order: the fragment it was given
    removed,        \* removed[k]: how many times the remover returned by inserted[k] ran
    released,       \* released[h]: how many require calls had been made when the
                    \* release of handle h was first called (no entry: never called)
    outcome,        \* the last call: its name, the error it threw, if any, and
                    \* the number of the fragment it threw at
    classifier,     \* the variables of the context's classifier
    classified      \* the calls of the classifier that returned, in order:
                    \* the styler, the label, the parameters, the class

vars == <<insert, requisitions, heap, handles, calls, inserted, removed,
          released, outcome, classifier, classified>>

----------------------------------------------------------------------------
(* JavaScript values *)

Str(chars) == [type |-> "string", chars |-> chars]

Fragment(class, statements) == [class |-> class, statements |-> statements]

\* The empty object made by Object.create(null).
EmptyObject == [key \in {} |-> 0]

\* object[key] = value
Put(object, key, value) ==
    [k \in (DOMAIN object) \cup {key} |-> IF k = key THEN value ELSE object[k]]

\* delete object[key]
Delete(object, key) == [k \in (DOMAIN object) \ {key} |-> object[k]]

\* array.indexOf(element) !== -1
Includes(array, element) == \E i \in 1..Len(array) : array[i] = element

\* array.splice(array.indexOf(element)): a splice without its count, which
\* takes every element from the one found to the end.
Splice_to_end(array, element) ==
    LET nr == CHOOSE i \in 1..Len(array) :
                  /\ array[i] = element
                  /\ \A j \in 1..(i - 1) : array[j] # element
    IN  SubSeq(array, 1, nr - 1)

\* array.splice(array.indexOf(element), 1)
Splice(array, element) ==
    LET nr == CHOOSE i \in 1..Len(array) :
                  /\ array[i] = element
                  /\ \A j \in 1..(i - 1) : array[j] # element
    IN  SubSeq(array, 1, nr - 1) \o SubSeq(array, nr + 1, Len(array))

----------------------------------------------------------------------------
(* The program state a call works on, and the call's own locals. *)

Context ==
    [insert |-> insert, requisitions |-> requisitions, heap |-> heap,
     inserted |-> inserted, removed |-> removed,
     call |-> calls + 1, releasers |-> <<>>, error |-> "none", at |-> 0,
     throws |-> {}]

----------------------------------------------------------------------------
(* The context that exposes require and dispose. *)

\* The reference object made by one call of require_fragment: the i-th
\* fragment of the n-th require call.
new_reference(c) == <<c.call, Len(c.releasers) + 1>>

\* The release_fragment closure: it keeps its requisition object, its
\* reference and its fragment.
releaser_of(c, requisition, fragment) ==
    [requisition |-> requisition, reference |-> new_reference(c),
     fragment |-> fragment]

\* throw new Error(message), while the fragment after the registered ones is
\* being registered.
throw(c, message) ==
    [c EXCEPT !.error = message, !.at = Len(c.releasers) + 1]

\* The branch of require_fragment that makes a requisition: the inserter is
\* called while the object literal is evaluated.
make_requisition(c, fragment) ==
    IF c.insert = "undefined"
    THEN throw(c, "TypeError: insert is not a function")
    ELSE LET requisition == Len(c.heap) + 1
         IN  [c EXCEPT
                 !.inserted = Append(@, fragment),
                 !.removed = Append(@, 0),
                 !.heap = Append(@, [
                     statements |-> fragment.statements,
                     remove |-> Len(c.inserted) + 1,
                     references |-> <<new_reference(c)>>
                 ]),
                 !.requisitions = Put(@, fragment.class.chars, requisition),
                 !.releasers = Append(@, releaser_of(c, requisition, fragment))]

\* A push_reference that keeps one reference for all the fragments of a
\* class.
push_reference_shared(c, fragment) ==
    LET requisition == c.requisitions[fragment.class.chars]
    IN  [c EXCEPT
            !.releasers = Append(@, releaser_of(c, requisition, fragment))]

\* The branch of require_fragment that pushes a reference.
push_reference(c, fragment) ==
    LET requisition == c.requisitions[fragment.class.chars]
    IN  [c EXCEPT
            !.heap[requisition].references = Append(@, new_reference(c)),
            !.releasers = Append(@, releaser_of(c, requisition, fragment))]

\* A require_fragment that calls the inserter for every fragment.
require_fragment_inserts_always(c, fragment) ==
    IF c.error # "none" THEN c
    ELSE IF fragment.class.chars \notin DOMAIN c.requisitions
    THEN make_requisition(c, fragment)
    ELSE LET d == push_reference(c, fragment)
         IN  [d EXCEPT !.inserted = Append(@, fragment),
                       !.removed = Append(@, 0)]

\* One call of require_fragment.  A call made after an earlier one threw does
\* not happen: Array.prototype.map stops at the exception.
require_fragment(c, fragment) ==
    IF c.error # "none" THEN c
    ELSE IF fragment.class.chars \notin DOMAIN c.requisitions
    THEN make_requisition(c, fragment)
    ELSE push_reference(c, fragment)

\* The removal of a requisition that ran out of references.
remove_requisition(c, releaser) ==
    [c EXCEPT
        !.removed[c.heap[releaser.requisition].remove] = @ + 1,
        !.requisitions = Delete(@, releaser.fragment.class.chars)]

\* A release_fragment that removes the fragment as soon as one reference goes.
release_fragment_removes_early(c, releaser) ==
    LET references == c.heap[releaser.requisition].references
    IN  IF ~Includes(references, releaser.reference)
        THEN c
        ELSE remove_requisition(
                 [c EXCEPT !.heap[releaser.requisition].references =
                               Splice(references, releaser.reference)],
                 releaser)

\* A release_fragment that forgets to delete the requisition from the table.
release_fragment_keeps_entry(c, releaser) ==
    LET references == c.heap[releaser.requisition].references
        spliced == Splice(references, releaser.reference)
    IN  IF ~Includes(references, releaser.reference)
        THEN c
        ELSE IF Len(spliced) = 0
        THEN [c EXCEPT
                 !.heap[releaser.requisition].references = spliced,
                 !.removed[c.heap[releaser.requisition].remove] = @ + 1]
        ELSE [c EXCEPT !.heap[releaser.requisition].references = spliced]

\* A release_fragment that gives up a reference of the table's requisition of
\* its class, whoever holds it (a count instead of a reference).
release_fragment_counts(c, releaser) ==
    LET class == releaser.fragment.class.chars
    IN  IF class \notin DOMAIN c.requisitions
        THEN c
        ELSE LET requisition == c.requisitions[class]
                 rest == Tail(c.heap[requisition].references)
                 c1 == [c EXCEPT !.heap[requisition].references = rest]
             IN  IF Len(rest) = 0
                 THEN [c1 EXCEPT
                          !.removed[c.heap[requisition].remove] = @ + 1,
                          !.requisitions = Delete(@, class)]
                 ELSE c1

\* One call of a release_fragment closure.
release_fragment(c, releaser) ==
    LET references == c.heap[releaser.requisition].references
        spliced == Splice(references, releaser.reference)
    IN  IF ~Includes(references, releaser.reference)
        THEN c
        ELSE IF Len(spliced) = 0
        THEN remove_requisition(
                 [c EXCEPT !.heap[releaser.requisition].references = spliced],
                 releaser)
        ELSE [c EXCEPT !.heap[releaser.requisition].references = spliced]

\* A map that registers only the first fragment of each class of the array.
RECURSIVE map_require_fragment_once_per_class(_, _)
map_require_fragment_once_per_class(c, fragments) ==
    IF fragments = <<>> THEN c
    ELSE map_require_fragment_once_per_class(
             IF \E i \in 1..Len(c.releasers) :
                    c.releasers[i].fragment.class = Head(fragments).class
             THEN c
             ELSE require_fragment(c, Head(fragments)),
             Tail(fragments))

\* A map that is only made on a context that has not been disposed: on a
\* disposed one it throws, whatever the array.
RECURSIVE map_require_fragment_refuses_disposed(_, _)
map_require_fragment_refuses_disposed(c, fragments) ==
    IF c.insert = "undefined"
    THEN throw(c, "TypeError: insert is not a function")
    ELSE IF fragments = <<>> THEN c
    ELSE map_require_fragment_refuses_disposed(
             require_fragment(c, Head(fragments)), Tail(fragments))

\* fragments.map(require_fragment)
RECURSIVE map_require_fragment(_, _)
map_require_fragment(c, fragments) ==
    IF fragments = <<>> THEN c
    ELSE map_require_fragment(
             require_fragment(c, Head(fragments)), Tail(fragments))

\* releasers.forEach(function (releaser) { releaser(); })
RECURSIVE forEach_releaser(_, _)
forEach_releaser(c, releasers) ==
    IF releasers = <<>> THEN c
    ELSE forEach_releaser(
             release_fragment(c, Head(releasers)), Tail(releasers))

\* A dispose that spares the requisitions that still have references.
dispose_removed_unreferenced(c) ==
    [k \in 1..Len(c.removed) |->
        c.removed[k] + Cardinality({class \in DOMAIN c.requisitions :
            /\ c.heap[c.requisitions[class]].remove = k
            /\ c.heap[c.requisitions[class]].references = <<>>})]

\* The removers dispose runs: one per value of the table.
dispose_removed(c) ==
    [k \in 1..Len(c.removed) |->
        c.removed[k] + Cardinality({class \in DOMAIN c.requisitions :
            c.heap[c.requisitions[class]].remove = k})]

A == <<"a">>
B == <<"b">>
S1 == <<"x">>
S2 == <<"y">>

A1 == Fragment(Str(A), Str(S1))
A2 == Fragment(Str(A), Str(S2))
B1 == Fragment(Str(B), Str(S1))

\* What the requireables passed to require flatten to: nothing, one fragment,
\* one class twice, two classes, and one class with two different statements.
Requireables ==
    {<<>>, <<A1>>, <<B1>>, <<A1, A1>>, <<A1, B1>>, <<B1, A2>>}

Init ==
    /\ insert = "inserter"
    /\ requisitions = EmptyObject
    /\ heap = <<>>
    /\ handles = <<>>
    /\ calls = 0
    /\ inserted = <<>>
    /\ removed = <<>>
    /\ released = EmptyObject
    /\ outcome = [op |-> "context", error |-> "none", at |-> 0]
    /\ classifier = [kind |-> "context", intern |-> FALSE,
                     ids |-> EmptyObject, counter |-> 0,
                     interned |-> EmptyObject, intern_counter |-> 0]
    /\ classified = <<>>

\* context.require(requireable), the requireable flattening to 'fragments'.
RequireOf(fragments) ==
    LET c == map_require_fragment(Context, fragments)
    IN  /\ calls < MaxCalls
        /\ calls' = calls + 1
        /\ requisitions' = c.requisitions
        /\ heap' = c.heap
        /\ inserted' = c.inserted
        /\ removed' = c.removed
        /\ handles' = IF c.error # "none" THEN handles
                      ELSE Append(handles, [
                               classes |-> [i \in 1..Len(fragments) |->
                                               fragments[i].class.chars],
                               releasers |-> c.releasers
                           ])
        /\ outcome' = [op |-> "require", error |-> c.error, at |-> c.at]
        /\ UNCHANGED <<insert, released, classifier, classified>>

Require == \E fragments \in Requireables : RequireOf(fragments)

\* handle.release(), for the handle returned by the h-th successful require.
ReleaseOf(h) ==
    LET c == forEach_releaser(Context, handles[h].releasers)
    IN  /\ requisitions' = c.requisitions
        /\ heap' = c.heap
        /\ removed' = c.removed
        /\ released' = IF h \in DOMAIN released THEN released
                        ELSE Put(released, h, calls)
        /\ outcome' = [op |-> "release", error |-> "none", at |-> 0]
        /\ UNCHANGED <<insert, handles, calls, inserted, classifier,
                       classified>>

Release == \E h \in 1..Len(handles) : ReleaseOf(h)

\* context.dispose()
Dispose ==
    /\ removed' = IF insert # "undefined" THEN dispose_removed(Context)
                  ELSE removed
    /\ insert' = "undefined"
    /\ outcome' = [op |-> "dispose", error |-> "none", at |-> 0]
    /\ UNCHANGED <<requisitions, heap, handles, calls, inserted, released,
                   classifier, classified>>

Next == Require \/ Release \/ Dispose

Spec == Init /\ [][Next]_vars

----------------------------------------------------------------------------
(* The same context, with removers that call require.                      *)
(*                                                                         *)
(* The remover is the function the inserter returned: it belongs to the    *)
(* caller, and release_fragment calls it between the splice and the delete *)
(* (src/fstyle.js lines 519-522).  A remover that calls context.require    *)
(* runs a whole require call at that point.                                *)

\* requisition.remove(), the remover calling context.require with a
\* requireable that flattens to 'fragments'.  The first remover a release
\* runs makes the call; the releasers of the handle it is returned are kept
\* in c.releasers, which a release leaves empty otherwise.
remove_requiring(c, releaser, fragments) ==
    LET removing == [c EXCEPT
                        !.removed[c.heap[releaser.requisition].remove] = @ + 1]
    IN  IF c.releasers # <<>> THEN removing
        ELSE map_require_fragment(removing, fragments)

\* One call of a release_fragment closure, whose remover may call require.
release_fragment_requiring(c, releaser, fragments) ==
    LET references == c.heap[releaser.requisition].references
        spliced == Splice(references, releaser.reference)
    IN  IF ~Includes(references, releaser.reference)
        THEN c
        ELSE IF Len(spliced) = 0
        THEN LET returned == remove_requiring(
                     [c EXCEPT
                         !.heap[releaser.requisition].references = spliced],
                     releaser, fragments)
             IN  [returned EXCEPT
                     !.requisitions = Delete(@, releaser.fragment.class.chars)]
        ELSE [c EXCEPT !.heap[releaser.requisition].references = spliced]

\* releasers.forEach(function (releaser) { releaser(); })
RECURSIVE forEach_releaser_requiring(_, _, _)
forEach_releaser_requiring(c, releasers, fragments) ==
    IF releasers = <<>> THEN c
    ELSE forEach_releaser_requiring(
             release_fragment_requiring(c, Head(releasers), fragments),
             Tail(releasers), fragments)

\* What the requireables flatten to: one fragment, and two of two classes.
RequireablesR == {<<A1>>, <<B1>>, <<A1, B1>>, <<B1, A1>>}

RequireR == \E fragments \in RequireablesR : RequireOf(fragments)

\* handle.release(), no remover calling require.
ReleaseR == \E h \in 1..Len(handles) : ReleaseOf(h)

\* handle.release(), for the handle returned by the h-th require, while the
\* removers call context.require(requireable): the release runs a remover,
\* the first one it runs makes the require call, which returns a handle to
\* the remover.
ReleaseRequiringOf(h, fragments) ==
    LET c == forEach_releaser_requiring(Context, handles[h].releasers,
                                        fragments)
    IN  /\ calls < MaxCalls
        /\ c.releasers # <<>>
        /\ calls' = calls + 1
        /\ requisitions' = c.requisitions
        /\ heap' = c.heap
        /\ inserted' = c.inserted
        /\ removed' = c.removed
        /\ handles' = Append(handles, [
                          classes |-> [i \in 1..Len(fragments) |->
                                          fragments[i].class.chars],
                          releasers |-> c.releasers
                      ])
        /\ released' = IF h \in DOMAIN released THEN released
                        ELSE Put(released, h, calls)
        /\ outcome' = [op |-> "release", error |-> "none", at |-> 0,
                       release |-> h, required |-> fragments]
        /\ UNCHANGED <<insert, classifier, classified>>

ReleaseRequiring ==
    \E h \in 1..Len(handles), fragments \in RequireablesR :
        ReleaseRequiringOf(h, fragments)

NextR == RequireR \/ ReleaseR \/ ReleaseRequiring

SpecR == Init /\ [][NextR]_vars

----------------------------------------------------------------------------
(* The validating context, whose fragments are {class, rules}. *)

Value(type, chars) == [type |-> type, chars |-> chars]

FragmentV(class, rules) == [class |-> class, rules |-> rules]

Lower ==
    {"a", "b", "c", "d", "e", "f", "g", "h", "i", "j", "k", "l", "m",
     "n", "o", "p", "q", "r", "s", "t", "u", "v", "w", "x", "y", "z"}
Upper ==
    {"A", "B", "C", "D", "E", "F", "G", "H", "I", "J", "K", "L", "M",
     "N", "O", "P", "Q", "R", "S", "T", "U", "V", "W", "X", "Y", "Z"}
Digit == {"0", "1", "2", "3", "4", "5", "6", "7", "8", "9"}
UpperHex == Digit \cup {"A", "B", "C", "D", "E", "F"}

\* (?:[_a-zA-Z0-9\-]|\\[0-9A-F]{6})*$ matched from position i.  The two
\* alternatives begin with different characters, so there is no backtracking.
RECURSIVE rx_class_rest(_, _)
rx_class_rest(string, i) ==
    IF i > Len(string) THEN TRUE
    ELSE IF string[i] \in {"_", "-"} \cup Lower \cup Upper \cup Digit
    THEN rx_class_rest(string, i + 1)
    ELSE /\ string[i] = "\\"
         /\ i + 6 <= Len(string)
         /\ \A j \in (i + 1)..(i + 6) : string[j] \in UpperHex
         /\ rx_class_rest(string, i + 7)

\* An rx_class that lets a hyphen lead.
rx_class_test_hyphen_first(string) ==
    /\ Len(string) >= 1
    /\ string[1] \in {"_", "-"} \cup Lower \cup Upper
    /\ rx_class_rest(string, 2)

\* rx_class.test(string)
rx_class_test(string) ==
    /\ Len(string) >= 1
    /\ string[1] \in {"_"} \cup Lower \cup Upper
    /\ rx_class_rest(string, 2)

\* The part of require_fragment that follows the checks: push the reference,
\* call the inserter if it is the only one, store the requisite.  An inserter
\* that throws for the class (c.throws) ends the call before the requisite,
\* made for this fragment, is stored.
register(c, fragment) ==
    LET class == fragment.class.chars
        stored == class \in DOMAIN c.requisitions
        requisite == IF stored THEN c.requisitions[class] ELSE Len(c.heap) + 1
        references == IF stored THEN c.heap[requisite].references ELSE <<>>
        pushed == Append(references, new_reference(c))
        first == Len(pushed) = 1
        object == [rules |-> fragment.rules,
                   remove |-> IF first THEN Len(c.inserted) + 1
                              ELSE c.heap[requisite].remove,
                   references |-> pushed]
    IN  IF first /\ class \in c.throws
        THEN throw(c, "inserter threw")
        ELSE
        [c EXCEPT
            !.inserted = IF first THEN Append(@, fragment) ELSE @,
            !.removed = IF first THEN Append(@, 0) ELSE @,
            !.heap = IF stored THEN [@ EXCEPT ![requisite] = object]
                     ELSE Append(@, object),
            !.requisitions = Put(@, class, requisite),
            !.releasers = Append(@, releaser_of(c, requisite, fragment))]

\* The rules of the requisite of the fragment's class: the stored one, or the
\* one made from the fragment.
requisite_rules(c, fragment) ==
    IF fragment.class.chars \in DOMAIN c.requisitions
    THEN c.heap[c.requisitions[fragment.class.chars]].rules
    ELSE fragment.rules

\* The context without what the call in progress has registered.
rolled_back(c) ==
    LET kept(requisite) ==
            SelectSeq(c.heap[requisite].references,
                      LAMBDA reference : reference[1] # c.call)
        emptied == {class \in DOMAIN c.requisitions :
                       kept(c.requisitions[class]) = <<>>}
    IN  [c EXCEPT
            !.heap = [requisite \in 1..Len(c.heap) |->
                         [c.heap[requisite] EXCEPT
                             !.references = kept(requisite)]],
            !.removed = [k \in 1..Len(c.removed) |->
                            IF \E class \in emptied :
                                   c.heap[c.requisitions[class]].remove = k
                            THEN c.removed[k] + 1 ELSE c.removed[k]],
            !.requisitions = [class \in (DOMAIN c.requisitions) \ emptied |->
                                 c.requisitions[class]]]

\* A require_fragment that undoes the call's registrations before it throws.
require_fragmentV_rolls_back(c, fragment) ==
    IF c.error # "none" THEN c
    ELSE IF \/ fragment.class.type # "string"
            \/ ~rx_class_test(fragment.class.chars)
    THEN rolled_back(throw(c, "Bad class."))
    ELSE IF fragment.rules.type # "string"
    THEN rolled_back(throw(c, "Bad rules."))
    ELSE IF fragment.rules # requisite_rules(c, fragment)
    THEN rolled_back(throw(c, "Fragment changed"))
    ELSE LET d == register(c, fragment)
         IN  IF d.error # "none" THEN rolled_back(d) ELSE d

\* A require_fragment that pushes the reference before it compares the rules.
require_fragmentV_pushes_first(c, fragment) ==
    IF c.error # "none" THEN c
    ELSE IF \/ fragment.class.type # "string"
            \/ ~rx_class_test(fragment.class.chars)
    THEN throw(c, "Bad class.")
    ELSE IF fragment.rules.type # "string"
    THEN throw(c, "Bad rules.")
    ELSE IF fragment.rules # requisite_rules(c, fragment)
    THEN LET d == register(c, [fragment EXCEPT
                      !.rules = requisite_rules(c, fragment)])
         IN  [throw(c, "Fragment changed") EXCEPT
                 !.heap = d.heap, !.requisitions = d.requisitions]
    ELSE register(c, fragment)

\* One call of the validating require_fragment.
require_fragmentV(c, fragment) ==
    IF c.error # "none" THEN c
    ELSE IF \/ fragment.class.type # "string"
            \/ ~rx_class_test(fragment.class.chars)
    THEN throw(c, "Bad class.")
    ELSE IF fragment.rules.type # "string"
    THEN throw(c, "Bad rules.")
    ELSE IF fragment.rules # requisite_rules(c, fragment)
    THEN throw(c, "Fragment changed")
    ELSE register(c, fragment)

\* fragments.map(require_fragment)
RECURSIVE map_require_fragmentV(_, _)
map_require_fragmentV(c, fragments) ==
    IF fragments = <<>> THEN c
    ELSE map_require_fragmentV(
             require_fragmentV(c, Head(fragments)), Tail(fragments))

R1 == <<"x">>
R2 == <<"y">>

\* Class values: in the grammar ...
UnderscoreFirst == Str(<<"_", "a", "-", "9">>)
Escaped == Str(<<"a", "\\", "0", "0", "0", "0", "2", "E">>)
\* ... and outside it.
HyphenFirst == Str(<<"-", "a">>)
DigitFirst == Str(<<"9", "a">>)
Empty == Str(<<>>)
Dotted == Str(<<"a", ".">>)
ShortEscape == Str(<<"a", "\\", "2", "E">>)
LowerEscape == Str(<<"a", "\\", "0", "0", "0", "0", "2", "e">>)
NotAString == Value("undefined", <<"u", "n", "d", "e", "f", "i", "n", "e", "d">>)

BadClasses ==
    {HyphenFirst, DigitFirst, Empty, Dotted, ShortEscape, LowerEscape,
     NotAString}

VA1 == FragmentV(Str(A), Str(R1))
VA2 == FragmentV(Str(A), Str(R2))
VB1 == FragmentV(Str(B), Str(R1))
VB0 == FragmentV(Str(B), Value("undefined", <<>>))
\* A fragment whose rules are the empty string.
VBE == FragmentV(Str(B), Str(<<>>))

\* The fragment arrays the stylers passed to require return.
RequireablesV ==
    {<<>>, <<VA1>>, <<VA2>>, <<VB1>>, <<VA1, VA2>>, <<VB1, VA2>>,
     <<VB0>>, <<VBE>>,
     <<FragmentV(UnderscoreFirst, Str(R1))>>,
     <<FragmentV(Escaped, Str(R1))>>,
     <<VA1, FragmentV(HyphenFirst, Str(R1))>>,
     <<FragmentV(NotAString, Str(R1)), VB1>>}
    \cup {<<FragmentV(class, Str(R1))>> : class \in BadClasses}

\* require(styler), the styler returning 'fragments'.
RequireVOf(fragments) ==
    LET c == map_require_fragmentV(Context, fragments)
    IN  /\ calls < MaxCalls
        /\ calls' = calls + 1
        /\ requisitions' = c.requisitions
        /\ heap' = c.heap
        /\ inserted' = c.inserted
        /\ removed' = c.removed
        /\ handles' = IF c.error # "none" THEN handles
                      ELSE Append(handles, [
                               classes |-> [i \in 1..Len(fragments) |->
                                               fragments[i].class.chars],
                               releasers |-> c.releasers
                           ])
        /\ outcome' = [op |-> "require", error |-> c.error, at |-> c.at]
        /\ UNCHANGED <<insert, released, classifier, classified>>

RequireV == \E fragments \in RequireablesV : RequireVOf(fragments)

\* The release of a handle: the release_fragment closures are those of the
\* context above.
ReleaseV == \E h \in 1..Len(handles) : ReleaseOf(h)

NextV == RequireV \/ ReleaseV

SpecV == Init /\ [][NextV]_vars

----------------------------------------------------------------------------
(* The validating context, given an inserter that may throw. *)

\* The fragment arrays the stylers return: one that registers, and arrays
\* whose second or third fragment can fail in each of the four ways.
RequireablesT ==
    {<<VA1>>, <<VA1, VB1>>, <<VA1, VA2>>, <<VA1, VB0>>,
     <<VA1, FragmentV(HyphenFirst, Str(R1))>>, <<VB1, VA1, VA2>>}

\* The sets of classes the inserter throws for during one call.
Throws == {{}, {B}}

\* require(styler), the styler returning 'fragments', the inserter throwing
\* for the classes in 'throws'.
RequireTOf(fragments, throws) ==
    LET c == map_require_fragmentV([Context EXCEPT !.throws = throws],
                                   fragments)
    IN  /\ calls < MaxCalls
        /\ calls' = calls + 1
        /\ requisitions' = c.requisitions
        /\ heap' = c.heap
        /\ inserted' = c.inserted
        /\ removed' = c.removed
        /\ handles' = IF c.error # "none" THEN handles
                      ELSE Append(handles, [
                               classes |-> [i \in 1..Len(fragments) |->
                                               fragments[i].class.chars],
                               releasers |-> c.releasers
                           ])
        /\ outcome' = [op |-> "require", error |-> c.error, at |-> c.at]
        /\ UNCHANGED <<insert, released, classifier, classified>>

RequireT ==
    \E fragments \in RequireablesT, throws \in Throws :
        RequireTOf(fragments, throws)

ReleaseT == \E h \in 1..Len(handles) : ReleaseOf(h)

NextT == RequireT \/ ReleaseT

SpecT == Init /\ [][NextT]_vars

----------------------------------------------------------------------------
(* The context that counts (src/fstyle.js lines 193-238): a requisite has   *)
(* a count instead of references, require returns the release function, and *)
(* the release function keeps the fragments it was made for.               *)

\* The end of require_fragment: count the fragment, call the inserter if it
\* is the only one, store the requisite.
count_fragment(c, fragment) ==
    LET class == fragment.class.chars
        stored == class \in DOMAIN c.requisitions
        requisite == IF stored THEN c.requisitions[class] ELSE Len(c.heap) + 1
        count == (IF stored THEN c.heap[requisite].count ELSE 0) + 1
        object == [rules |-> fragment.rules,
                   remove |-> IF count = 1 THEN Len(c.inserted) + 1
                              ELSE c.heap[requisite].remove,
                   count |-> count]
    IN  [c EXCEPT
            !.inserted = IF count = 1 THEN Append(@, fragment) ELSE @,
            !.removed = IF count = 1 THEN Append(@, 0) ELSE @,
            !.heap = IF stored THEN [@ EXCEPT ![requisite] = object]
                     ELSE Append(@, object),
            !.requisitions = Put(@, class, requisite),
            !.releasers = Append(@, fragment)]

\* One call of the counting require_fragment.
require_fragment_count(c, fragment) ==
    IF c.error # "none" THEN c
    ELSE IF \/ fragment.class.type # "string"
            \/ ~rx_class_test(fragment.class.chars)
    THEN throw(c, "Bad class.")
    ELSE IF fragment.rules.type # "string"
    THEN throw(c, "Bad rules.")
    ELSE IF fragment.rules # requisite_rules(c, fragment)
    THEN throw(c, "Rules must not change.")
    ELSE count_fragment(c, fragment)

\* fragments.forEach(require_fragment)
RECURSIVE forEach_require_fragment(_, _)
forEach_require_fragment(c, fragments) ==
    IF fragments = <<>> THEN c
    ELSE forEach_require_fragment(
             require_fragment_count(c, Head(fragments)), Tail(fragments))

\* One call of the counting release_fragment: it looks the class up in the
\* table, whoever made the requisite it finds.
release_fragment_count(c, fragment) ==
    LET class == fragment.class.chars
    IN  IF class \notin DOMAIN c.requisitions THEN c
        ELSE LET requisite == c.requisitions[class]
                 counted == [c EXCEPT !.heap[requisite].count = @ - 1]
             IN  IF counted.heap[requisite].count = 0
                 THEN [counted EXCEPT
                          !.removed[c.heap[requisite].remove] = @ + 1,
                          !.requisitions = Delete(@, class)]
                 ELSE counted

\* fragments.forEach(release_fragment)
RECURSIVE forEach_release_fragment(_, _)
forEach_release_fragment(c, fragments) ==
    IF fragments = <<>> THEN c
    ELSE forEach_release_fragment(
             release_fragment_count(c, Head(fragments)), Tail(fragments))

\* The fragment arrays the stylers passed to require return.
RequireablesN ==
    {<<>>, <<VA1>>, <<VB1>>, <<VA1, VA1>>, <<VA1, VB1>>, <<VB1, VA2>>,
     <<VB0>>, <<VA1, FragmentV(HyphenFirst, Str(R1))>>}

\* require(styler), the styler returning 'fragments'.  The release function
\* it returns is kept in handles, with the array it iterates over.
RequireNOf(fragments) ==
    LET c == forEach_require_fragment(Context, fragments)
    IN  /\ calls < MaxCalls
        /\ calls' = calls + 1
        /\ requisitions' = c.requisitions
        /\ heap' = c.heap
        /\ inserted' = c.inserted
        /\ removed' = c.removed
        /\ handles' = IF c.error # "none" THEN handles
                      ELSE Append(handles, [fragments |-> fragments])
        /\ outcome' = [op |-> "require", error |-> c.error, at |-> c.at]
        /\ UNCHANGED <<insert, released, classifier, classified>>

RequireN == \E fragments \in RequireablesN : RequireNOf(fragments)

\* release(), for the release function returned by the h-th require that
\* returned; it may be called any number of times.
ReleaseNOf(h) ==
    LET c == forEach_release_fragment(Context, handles[h].fragments)
    IN  /\ requisitions' = c.requisitions
        /\ heap' = c.heap
        /\ removed' = c.removed
        /\ released' = IF h \in DOMAIN released THEN released
                        ELSE Put(released, h, calls)
        /\ outcome' = [op |-> "release", error |-> "none", at |-> 0]
        /\ UNCHANGED <<insert, handles, calls, inserted, classifier,
                       classified>>

ReleaseN == \E h \in 1..Len(handles) : ReleaseNOf(h)

NextN == RequireN \/ ReleaseN

SpecN == Init /\ [][NextN]_vars

----------------------------------------------------------------------------
(* Characters.  A character of the ASCII range is written as itself; any   *)
(* other is written by the name of its code point, "U+23A7".               *)

\* glyph.codePointAt(0), for the characters that are not ASCII letters or
\* digits.
CodePointAt ==
    (" " :> 32) @@ ("#" :> 35) @@ ("%" :> 37) @@ ("(" :> 40) @@ (")" :> 41)
    @@ ("," :> 44) @@ ("-" :> 45) @@ ("." :> 46) @@ (":" :> 58)
    @@ (";" :> 59) @@ ("<" :> 60) @@ (">" :> 62) @@ ("\\" :> 92) @@ ("_" :> 95) @@ ("{" :> 123)
    @@ ("}" :> 125)
    @@ ("U+00B7" :> 183) @@ ("U+2008" :> 8200) @@ ("U+201A" :> 8218)
    @@ ("U+2024" :> 8228) @@ ("U+2052" :> 8274) @@ ("U+2192" :> 8594)
    @@ ("U+23A7" :> 9127) @@ ("U+23AD" :> 9133) @@ ("U+2423" :> 9251)
    @@ ("U+27EE" :> 10222) @@ ("U+27EF" :> 10223) @@ ("U+FF03" :> 65283)
    @@ ("U+1F600" :> 128512)
    @@ ("U+0009" :> 9) @@ ("U+009F" :> 159) @@ ("U+0090" :> 144)
    @@ ("U+00A0" :> 160) @@ ("U+FFFF" :> 65535) @@ ("U+10000" :> 65536)
    @@ ("U+10001" :> 65537) @@ ("U+10FFFF" :> 1114111)

\* The characters the classifiers write between the parts of a class.
LeftBracket == "U+23A7"
RightBracket == "U+23AD"
MiddleDot == "U+00B7"
Arrow == "U+2192"

\* The digits of a number in a base, most significant first.
RECURSIVE Digits(_, _, _)
Digits(number, base, glyphs) ==
    IF number < base THEN <<glyphs[number + 1]>>
    ELSE Append(Digits(number \div base, base, glyphs),
                glyphs[(number % base) + 1])

\* String(number), for a number that is a natural.
Decimal(number) ==
    Digits(number, 10, <<"0", "1", "2", "3", "4", "5", "6", "7", "8", "9">>)

\* number.toString(16).toUpperCase()
UpperHexadecimal(number) ==
    Digits(number, 16, <<"0", "1", "2", "3", "4", "5", "6", "7", "8", "9",
                         "A", "B", "C", "D", "E", "F">>)

\* string.padStart(length, "0")
padStart(string, length) ==
    [i \in 1..(IF Len(string) < length THEN length - Len(string) ELSE 0) |->
        "0"] \o string

\* rx_class_character.test(glyph): one UTF-16 code unit that is a letter, a
\* digit, an underbar, a hyphen, or in U+00A0..U+FFFF.
rx_class_character_test(glyph) ==
    \/ glyph \in Lower \cup Upper \cup Digit \cup {"_", "-"}
    \/ CodePointAt[glyph] \in 160..65535

\* The concatenation of the strings of an array: array.join("").
RECURSIVE join(_)
join(array) ==
    IF array = <<>> THEN <<>> ELSE Head(array) \o join(Tail(array))

\* An encode that writes the hexadecimal digits without the padding.
encode_unpadded(string) ==
    join([i \in 1..Len(string) |->
        IF rx_class_character_test(string[i]) THEN <<string[i]>>
        ELSE <<"\\">> \o UpperHexadecimal(CodePointAt[string[i]])])

\* An encode that takes the first code unit of a glyph for its code point:
\* glyph.charCodeAt(0), the high surrogate of a glyph above U+FFFF.
encode_charCodeAt(string) ==
    join([i \in 1..Len(string) |->
        IF rx_class_character_test(string[i]) THEN <<string[i]>>
        ELSE LET point == CodePointAt[string[i]]
                 unit == IF point < 65536 THEN point
                         ELSE 55296 + ((point - 65536) \div 1024)
             IN  <<"\\">> \o padStart(UpperHexadecimal(unit), 6)])

\* encode(value), for a value that is a string.
encode(string) ==
    join([i \in 1..Len(string) |->
        IF rx_class_character_test(string[i]) THEN <<string[i]>>
        ELSE <<"\\">> \o padStart(UpperHexadecimal(CodePointAt[string[i]]), 6)])

\* The lookalikes of src/fstyle.js, and those of src/unnamed/part_002, which
\* differ in the lookalike of the space.
lookalikes ==
    ("." :> "U+2024") @@ ("#" :> "U+FF03") @@ ("%" :> "U+2052")
    @@ ("(" :> "U+27EE") @@ (")" :> "U+27EF") @@ ("," :> "U+201A")
    @@ (" " :> "U+2423")
lookalikes_2023_10_03 ==
    ("." :> "U+2024") @@ ("#" :> "U+FF03") @@ ("%" :> "U+2052")
    @@ ("(" :> "U+27EE") @@ (")" :> "U+27EF") @@ ("," :> "U+201A")
    @@ (" " :> "U+2008")

\* spoof(string), with a table of lookalikes.
spoof(table, string) ==
    [i \in 1..Len(string) |->
        IF string[i] \in DOMAIN table THEN table[string[i]] ELSE string[i]]

----------------------------------------------------------------------------
(* Objects with named properties, and the order of their keys. *)

\* typeof value.  The value null is written Value("null", "null").
typeof(value) == IF value.type = "null" THEN "object" ELSE value.type

\* The value counts as true in a condition.
truthy(value) ==
    /\ value.type \notin {"null", "undefined"}
    /\ ~(value.type = "string" /\ value.chars = <<>>)
    /\ ~(value.type = "boolean" /\ value.chars = <<"f", "a", "l", "s", "e">>)
    /\ ~(value.type = "number" /\ value.chars \in {<<"0">>, <<"N", "a", "N">>})

undefined == Value("undefined", <<"u", "n", "d", "e", "f", "i", "n", "e", "d">>)

\* An object is the array of its <<key, value>> properties, in the order of
\* their creation; the keys are strings that are not array indexes.
\* Object.keys(object)
keys(object) == [i \in 1..Len(object) |-> object[i][1]]

\* object[key]
get(object, key) ==
    IF \E i \in 1..Len(object) : object[i][1] = key
    THEN object[CHOOSE i \in 1..Len(object) : object[i][1] = key][2]
    ELSE undefined

\* object[key] = value
set(object, key, value) ==
    IF \E i \in 1..Len(object) : object[i][1] = key
    THEN [i \in 1..Len(object) |->
             IF object[i][1] = key THEN <<key, value>> ELSE object[i]]
    ELSE Append(object, <<key, value>>)

\* The UTF-16 code unit of a character of the Basic Multilingual Plane.
LowerArray ==
    <<"a", "b", "c", "d", "e", "f", "g", "h", "i", "j", "k", "l", "m",
      "n", "o", "p", "q", "r", "s", "t", "u", "v", "w", "x", "y", "z">>
UpperArray ==
    <<"A", "B", "C", "D", "E", "F", "G", "H", "I", "J", "K", "L", "M",
      "N", "O", "P", "Q", "R", "S", "T", "U", "V", "W", "X", "Y", "Z">>
DigitArray == <<"0", "1", "2", "3", "4", "5", "6", "7", "8", "9">>
indexOf(array, element) ==
    CHOOSE i \in 1..Len(array) : array[i] = element
charCodeAt(character) ==
    IF character \in Digit THEN 47 + indexOf(DigitArray, character)
    ELSE IF character \in Upper THEN 64 + indexOf(UpperArray, character)
    ELSE IF character \in Lower THEN 96 + indexOf(LowerArray, character)
    ELSE CodePointAt[character]

\* left < right, as strings: the comparison of Array.prototype.sort without
\* a comparator.
RECURSIVE less(_, _)
less(left, right) ==
    IF right = <<>> THEN FALSE
    ELSE IF left = <<>> THEN TRUE
    ELSE IF Head(left) = Head(right) THEN less(Tail(left), Tail(right))
    ELSE charCodeAt(Head(left)) < charCodeAt(Head(right))

\* A sort that leaves the array as it is.
sort_nothing(array) == array

\* array.sort(), for an array of different strings.
RECURSIVE sort(_)
sort(array) ==
    IF array = <<>> THEN <<>>
    ELSE LET least == CHOOSE i \in 1..Len(array) :
                          \A j \in 1..Len(array) :
                              j # i => less(array[i], array[j])
         IN  <<array[least]>>
                 \o sort(SubSeq(array, 1, least - 1)
                         \o SubSeq(array, least + 1, Len(array)))

----------------------------------------------------------------------------
(* The classifiers.  A classifier is the record of the variables its       *)
(* closure keeps; a styler or template function is known by its identity.  *)

\* The classifier made by context (src/fstyle.js), development() or
\* production(intern) (src/unnamed/part_002).
Classifier(kind, intern) ==
    [kind |-> kind, intern |-> intern,
     ids |-> EmptyObject, counter |-> 0,
     interned |-> EmptyObject, intern_counter |-> 0]

\* What a call of a classifier leaves: the classifier, the class returned,
\* the error thrown.
Returned(k, class) == [classifier |-> k, class |-> class, error |-> "none"]
Thrown(k, message) == [classifier |-> k, class |-> <<>>, error |-> message]

\* A ref_classifier that counts the stylers modulo ten.
ref_classifier_last_digit(k, styler) ==
    IF styler \in DOMAIN k.ids
    THEN Returned(k, k.ids[styler])
    ELSE LET the_class == <<"f">> \o Decimal(k.counter % 10)
         IN  Returned([k EXCEPT !.counter = @ + 1,
                                !.ids = Put(@, styler, the_class)],
                      the_class)

\* ref_classifier(styler)
ref_classifier(k, styler) ==
    IF styler \in DOMAIN k.ids
    THEN Returned(k, k.ids[styler])
    ELSE LET the_class == <<"f">> \o Decimal(k.counter)
         IN  Returned([k EXCEPT !.counter = @ + 1,
                                !.ids = Put(@, styler, the_class)],
                      the_class)

\* An interning that numbers the surrogates from one.
interning_from_one(k, the_class) ==
    IF ~k.intern THEN Returned(k, the_class)
    ELSE IF the_class \in DOMAIN k.interned
    THEN Returned(k, k.interned[the_class])
    ELSE LET surrogate == <<"f">> \o Decimal(k.intern_counter + 1)
         IN  Returned([k EXCEPT !.interned = Put(@, the_class, surrogate),
                                !.intern_counter = @ + 1],
                      surrogate)

\* The end of a classifier that can intern: the class, or its surrogate.
interning(k, the_class) ==
    IF ~k.intern THEN Returned(k, the_class)
    ELSE IF the_class \in DOMAIN k.interned
    THEN Returned(k, k.interned[the_class])
    ELSE LET surrogate == <<"f">> \o Decimal(k.intern_counter)
         IN  Returned([k EXCEPT !.interned = Put(@, the_class, surrogate),
                                !.intern_counter = @ + 1],
                      surrogate)

\* An append_parameter that throws for functions only.
RECURSIVE append_parameter_accepts_objects(_, _, _)
append_parameter_accepts_objects(the_class, sorted, parameters) ==
    IF sorted = <<>> THEN [class |-> the_class, error |-> "none"]
    ELSE LET key == Head(sorted)
             value == get(parameters, key)
         IN  IF typeof(value) = "function"
             THEN [class |-> <<>>, error |-> "Bad parameter"]
             ELSE append_parameter_accepts_objects(
                      the_class \o <<MiddleDot>> \o key \o <<Arrow>>
                          \o spoof(lookalikes_2023_10_03, value.chars),
                      Tail(sorted), parameters)

\* The reduction of development_classifier over the sorted keys: the class
\* so far, or the error thrown.
RECURSIVE append_parameter(_, _, _)
append_parameter(the_class, sorted, parameters) ==
    IF sorted = <<>> THEN [class |-> the_class, error |-> "none"]
    ELSE LET key == Head(sorted)
             value == get(parameters, key)
         IN  IF \/ typeof(value) = "function"
                \/ truthy(value) /\ typeof(value) = "object"
             THEN [class |-> <<>>, error |-> "Bad parameter"]
             ELSE append_parameter(
                      the_class \o <<MiddleDot>> \o key \o <<Arrow>>
                          \o spoof(lookalikes_2023_10_03, value.chars),
                      Tail(sorted), parameters)

\* development_classifier(styler, label, ignore, parameters).  The initial
\* value of the reduction is computed before the reduction begins.
development_classifier(k, styler, label, parameters) ==
    LET ref == ref_classifier(k, styler)
        reduced == append_parameter(
                       ref.class \o <<LeftBracket>> \o label
                           \o <<RightBracket>>,
                       sort(keys(parameters)), parameters)
    IN  IF reduced.error # "none"
        THEN Thrown(ref.classifier, reduced.error)
        ELSE Returned(ref.classifier, reduced.class)

\* The reduction of production_classifier over the keys of the replacements.
RECURSIVE append_replacement(_, _, _)
append_replacement(the_class, the_keys, replacements) ==
    IF the_keys = <<>> THEN the_class
    ELSE append_replacement(
             the_class \o <<"_">> \o Head(the_keys) \o <<"_">>
                 \o get(replacements, Head(the_keys)).chars,
             Tail(the_keys), replacements)

\* production_classifier(styler, label, replacements)
production_classifier(k, styler, label, replacements) ==
    LET ref == ref_classifier(k, styler)
    IN  interning(
            ref.classifier,
            append_replacement(ref.class \o <<"_">> \o label,
                               keys(replacements), replacements))

\* The forEach of classify over the sorted keys.
RECURSIVE forEach_key(_, _, _)
forEach_key(the_class, sorted, parameters) ==
    IF sorted = <<>> THEN the_class
    ELSE LET key == Head(sorted)
             value == get(parameters, key)
         IN  forEach_key(
                 IF value # undefined
                 THEN the_class \o <<MiddleDot>> \o key \o <<Arrow>>
                          \o spoof(lookalikes, value.chars)
                 ELSE the_class,
                 Tail(sorted), parameters)

\* A classify that knows a template by its name.
classify_by_name(k, template, parameters) ==
    LET known == template.name \in DOMAIN k.ids
        the_class == IF known THEN k.ids[template.name]
                     ELSE <<"f">> \o Decimal(k.counter) \o <<LeftBracket>>
                              \o template.name \o <<RightBracket>>
        k1 == IF known THEN k
              ELSE [k EXCEPT !.counter = @ + 1,
                             !.ids = Put(@, template.name, the_class)]
    IN  interning(k1, forEach_key(the_class, sort(keys(parameters)),
                                  parameters))

\* classify(template, parameters), of the context of src/fstyle.js.  A
\* template is [id, name]: the function's identity and its name.
classify(k, template, parameters) ==
    LET known == template.id \in DOMAIN k.ids
        the_class == IF known THEN k.ids[template.id]
                     ELSE <<"f">> \o Decimal(k.counter) \o <<LeftBracket>>
                              \o template.name \o <<RightBracket>>
        k1 == IF known THEN k
              ELSE [k EXCEPT !.counter = @ + 1,
                             !.ids = Put(@, template.id, the_class)]
    IN  interning(k1, forEach_key(the_class, sort(keys(parameters)),
                                  parameters))

----------------------------------------------------------------------------
(* Requireables: a function, or an array of requireables.  A function is   *)
(* the record of what its closure keeps.                                   *)

\* What fragify works on: the classifier, the record of its calls, the
\* fragments made so far, the error thrown.
Flattening ==
    [classifier |-> classifier, classified |-> classified,
     fragments |-> <<>>, error |-> "none"]

\* The record of one call of the classifier.  'replacements' are the
\* parameters the class is made of, 'full' is the class the classifier
\* computes before it interns it.
Classification(styler, label, parameters, replacements, full, class) ==
    [styler |-> styler, label |-> label, parameters |-> parameters,
     replacements |-> replacements, full |-> full, class |-> class]

\* rule_requireable(classify), of src/fstyle.js: the closure keeps the
\* template, the parameters and the declarations the template returned.
rule_requireable(f, requireable) ==
    LET template == requireable.template
        parameters == requireable.parameters
        r == classify(f.classifier, template, parameters)
        full == classify([f.classifier EXCEPT !.intern = FALSE],
                         template, parameters).class
        the_class == encode(r.class)
    IN  [f EXCEPT
            !.classifier = r.classifier,
            !.classified = Append(@, Classification(
                template.id, template.name, parameters, parameters, full,
                r.class)),
            !.fragments = Append(@, Fragment(
                Str(the_class),
                Str(<<".">> \o the_class \o <<" ", "{">>
                        \o requireable.declarations \o <<"}">>)))]

\* statements.replace(rx_placeholder, the_class), the class holding no "$".
RECURSIVE replace_placeholder(_, _)
replace_placeholder(statements, the_class) ==
    IF statements = <<>> THEN <<>>
    ELSE IF /\ Len(statements) >= 2
            /\ statements[1] = "[" /\ statements[2] = "]"
    THEN the_class \o replace_placeholder(
             SubSeq(statements, 3, Len(statements)), the_class)
    ELSE <<Head(statements)>>
             \o replace_placeholder(Tail(statements), the_class)

\* fragment_requireable(classify), of src/fstyle.js: the closure keeps the
\* template, the parameters and the statements the template returned.
fragment_requireable(f, requireable) ==
    LET template == requireable.template
        parameters == requireable.parameters
        r == classify(f.classifier, template, parameters)
        full == classify([f.classifier EXCEPT !.intern = FALSE],
                         template, parameters).class
        the_class == encode(r.class)
    IN  [f EXCEPT
            !.classifier = r.classifier,
            !.classified = Append(@, Classification(
                template.id, template.name, parameters, parameters, full,
                r.class)),
            !.fragments = Append(@, Fragment(
                Str(the_class),
                Str(replace_placeholder(requireable.statements,
                                        the_class))))]

\* template.replace(rx_named_placeholder, replacer), of render.  The
\* template is the array of its pieces, a piece being a placeholder <key> or
\* the text between two placeholders.  What is left: the statements, the
\* used replacements, the error thrown.
RECURSIVE replacer(_, _, _)
replacer(rendered, template, available) ==
    IF template = <<>> \/ rendered.error # "none" THEN rendered
    ELSE LET piece == Head(template)
             value == get(available, piece.chars)
         IN  replacer(
                 IF ~piece.placeholder
                 THEN [rendered EXCEPT !.statements = @ \o piece.chars]
                 ELSE IF typeof(value) \in {"string", "number"}
                 THEN [rendered EXCEPT
                          !.statements = @ \o value.chars,
                          !.used = set(@, piece.chars, value)]
                 ELSE [rendered EXCEPT !.error = "Missing value"],
                 Tail(template), available)

\* classify(styler, label, used, parameters), the classifier being the one
\* made by development() or production(intern), or undefined after dispose.
call_classify(k, styler, label, used, parameters) ==
    IF k.kind = "development"
    THEN development_classifier(k, styler, label, parameters)
    ELSE IF k.kind = "production"
    THEN production_classifier(k, styler, label, used)
    ELSE Thrown(k, "TypeError: classify is not a function")

\* rule_requireable(classify), of src/unnamed/part_002: render, without
\* data, and the wrapping of the statements in the class selector.
rule_requireable_render(f, requireable) ==
    LET rendered == replacer([statements |-> <<>>, used |-> <<>>,
                              error |-> "none"],
                             requireable.template, requireable.parameters)
        r == call_classify(f.classifier, requireable.id, requireable.label,
                           rendered.used, requireable.parameters)
        full == call_classify([f.classifier EXCEPT !.intern = FALSE],
                              requireable.id, requireable.label,
                              rendered.used, requireable.parameters).class
        the_class == encode(r.class)
    IN  IF rendered.error # "none"
        THEN [f EXCEPT !.error = rendered.error]
        ELSE IF r.error # "none"
        THEN [f EXCEPT !.classifier = r.classifier, !.error = r.error]
        ELSE [f EXCEPT
                 !.classifier = r.classifier,
                 !.classified = Append(@, Classification(
                     requireable.id, requireable.label,
                     requireable.parameters, rendered.used, full, r.class)),
                 !.fragments = Append(@, Fragment(
                     Str(the_class),
                     Str(<<".">> \o the_class \o <<" ", "{">>
                             \o rendered.statements \o <<"}">>)))]

\* requireable(classify)
call_requireable(f, requireable) ==
    IF requireable.styler = "rule_styler"
    THEN rule_requireable(f, requireable)
    ELSE IF requireable.styler = "fragment_styler"
    THEN fragment_requireable(f, requireable)
    ELSE rule_requireable_render(f, requireable)

\* A fragify that leaves out the requireable that throws, and goes on.
RECURSIVE fragify_skips_thrower(_, _)
fragify_skips_thrower(f, requireable) ==
    IF requireable.typeof = "function"
    THEN LET called == call_requireable(f, requireable)
         IN  IF called.error # "none" THEN f ELSE called
    ELSE IF requireable.items = <<>> THEN f
    ELSE fragify_skips_thrower(
             fragify_skips_thrower(f, Head(requireable.items)),
             [requireable EXCEPT !.items = Tail(@)])

\* A fragify that flattens an array from its last element to its first.
RECURSIVE fragify_backwards(_, _)
fragify_backwards(f, requireable) ==
    IF f.error # "none" THEN f
    ELSE IF requireable.typeof = "function"
    THEN call_requireable(f, requireable)
    ELSE IF requireable.items = <<>> THEN f
    ELSE LET n == Len(requireable.items)
         IN  fragify_backwards(
                 fragify_backwards(f, requireable.items[n]),
                 [requireable EXCEPT !.items = SubSeq(@, 1, n - 1)])

\* fragify(requireable, classify).  An array is flattened element by
\* element, from the first to the last; the fragments of an element follow
\* those of the elements before it.
RECURSIVE fragify(_, _)
fragify(f, requireable) ==
    IF f.error # "none" THEN f
    ELSE IF requireable.typeof = "function"
    THEN call_requireable(f, requireable)
    ELSE IF requireable.items = <<>> THEN f
    ELSE fragify(fragify(f, Head(requireable.items)),
                 [requireable EXCEPT !.items = Tail(@)])

\* An array of requireables.
Array(items) == [typeof |-> "object", items |-> items]

\* The template functions: two of one name, and one of another.
T1 == [id |-> 1, name |-> <<"a">>]
T2 == [id |-> 2, name |-> <<"a">>]
T3 == [id |-> 3, name |-> <<"b">>]

\* rule(template)(parameters)
Rule(template, parameters, declarations) ==
    [typeof |-> "function", styler |-> "rule_styler", template |-> template,
     parameters |-> parameters, declarations |-> declarations]

\* css(template)(parameters)
Css(template, parameters, statements) ==
    [typeof |-> "function", styler |-> "fragment_styler",
     template |-> template, parameters |-> parameters,
     statements |-> statements]

Number(chars) == Value("number", chars)

\* The requireables passed to require: the stylers called without
\* parameters, with a number that has a point, and with two parameters, of
\* which one has a colon; a styler made by css.
L1 == Rule(T1, <<>>, <<"x">>)
L2 == Rule(T2, <<>>, <<"x">>)
K3 == Css(T3, <<>>, <<"[", "]", " ", "[", "]", "y">>)
L1c == Rule(T1, << <<<<"c">>, Number(<<"1", ".", "4">>)>> >>, <<"1", ".", "4">>)
L3dc == Rule(T3, << <<<<"d">>, Str(<<":">>)>>, <<<<"c">>, Str(<<"r">>)>> >>,
             <<":", "r">>)

RequireablesS ==
    {L1, Array(<<>>), Array(<<L1, Array(<<L2, L1>>)>>),
     Array(<<Array(<<L2>>), L1c>>),
     Array(<<Array(<<Array(<<L3dc>>)>>), Array(<<>>), K3>>),
     Array(<<L1c, Array(<<>>), L1c>>)}

\* Number of require calls made on a context with its classifier.
MaxRequires == 2

InitS ==
    /\ insert = "inserter"
    /\ requisitions = EmptyObject
    /\ heap = <<>>
    /\ handles = <<>>
    /\ calls = 0
    /\ inserted = <<>>
    /\ removed = <<>>
    /\ released = EmptyObject
    /\ outcome = [op |-> "context", error |-> "none", at |-> 0]
    /\ classifier \in {Classifier("context", intern) : intern \in BOOLEAN}
    /\ classified = <<>>

\* context.require(requireable)
RequireSOf(requireable) ==
    LET f == fragify(Flattening, requireable)
        c == map_require_fragment(Context, f.fragments)
    IN  /\ calls < MaxRequires
        /\ calls' = calls + 1
        /\ classifier' = f.classifier
        /\ classified' = f.classified
        /\ requisitions' = c.requisitions
        /\ heap' = c.heap
        /\ inserted' = c.inserted
        /\ removed' = c.removed
        /\ handles' = IF c.error # "none" THEN handles
                      ELSE Append(handles, [
                               classes |-> [i \in 1..Len(f.fragments) |->
                                               f.fragments[i].class.chars],
                               releasers |-> c.releasers
                           ])
        /\ outcome' = [op |-> "require", error |-> c.error, at |-> c.at]
        /\ UNCHANGED <<insert, released>>

RequireS == \E requireable \in RequireablesS : RequireSOf(requireable)

ReleaseS == \E h \in 1..Len(handles) : ReleaseOf(h)

DisposeS == Dispose

NextS == RequireS \/ ReleaseS \/ DisposeS

SpecS == InitS /\ [][NextS]_vars

----------------------------------------------------------------------------
(* Two contexts of src/fstyle.js, made by two calls of context().  Every    *)
(* variable is here an array with an element per context, or per object a  *)
(* call of context() makes; 'calls' holds, per context, the requireables    *)
(* require was called with.                                                *)

\* What is made once, when the module is loaded, and is the same for every
\* context.
context_module_level(n) == [insert |-> 1, requisitions |-> 1, classifier |-> 1]

\* The variables of the closure made by the n-th call of context(): the
\* 'let' statements are evaluated at each call, so that each context has an
\* insert variable, a table of requisitions and a classifier (ids, counter,
\* intern_counter, interned) of its own.
context(n) == [insert |-> n, requisitions |-> n, classifier |-> n]

Contexts == {1, 2}

\* The program state a call on the n-th context works on.
ContextOf(n) ==
    [insert |-> insert[context(n).insert],
     requisitions |-> requisitions[context(n).requisitions],
     heap |-> heap[context(n).requisitions],
     inserted |-> inserted[n], removed |-> removed[n],
     call |-> Len(calls[n]) + 1, releasers |-> <<>>, error |-> "none",
     at |-> 0, throws |-> {}]

\* What fragify works on when the n-th context calls it.
FlatteningOf(n) ==
    [classifier |-> classifier[context(n).classifier],
     classified |-> classified[n],
     fragments |-> <<>>, error |-> "none"]

RequireablesC == {L1, L2, Array(<<L2, L1c>>)}

\* const one = context(); const two = context();
InitC ==
    /\ insert = [n \in Contexts |-> "inserter"]
    /\ requisitions = [n \in Contexts |-> EmptyObject]
    /\ heap = [n \in Contexts |-> <<>>]
    /\ handles = [n \in Contexts |-> <<>>]
    /\ calls = [n \in Contexts |-> <<>>]
    /\ inserted = [n \in Contexts |-> <<>>]
    /\ removed = [n \in Contexts |-> <<>>]
    /\ released = [n \in Contexts |-> EmptyObject]
    /\ outcome = [op |-> "context", context |-> 2, error |-> "none",
                  at |-> 0]
    /\ classifier = [n \in Contexts |-> Classifier("context", FALSE)]
    /\ classified = [n \in Contexts |-> <<>>]

\* The calls require has been made with, on all the contexts.
Required == Len(calls[1]) + Len(calls[2])

\* require(requireable), of the n-th context.
RequireCOf(n, requireable) ==
    LET f == fragify(FlatteningOf(n), requireable)
        c == map_require_fragment(ContextOf(n), f.fragments)
    IN  /\ Required < MaxRequires
        /\ calls' = [calls EXCEPT ![n] = Append(@, requireable)]
        /\ classifier' = [classifier EXCEPT
                             ![context(n).classifier] = f.classifier]
        /\ classified' = [classified EXCEPT ![n] = f.classified]
        /\ requisitions' = [requisitions EXCEPT
                               ![context(n).requisitions] = c.requisitions]
        /\ heap' = [heap EXCEPT ![context(n).requisitions] = c.heap]
        /\ inserted' = [inserted EXCEPT ![n] = c.inserted]
        /\ removed' = [removed EXCEPT ![n] = c.removed]
        /\ handles' = IF c.error # "none" THEN handles
                      ELSE [handles EXCEPT ![n] = Append(@, [
                               classes |-> [i \in 1..Len(f.fragments) |->
                                               f.fragments[i].class.chars],
                               releasers |-> c.releasers
                           ])]
        /\ outcome' = [op |-> "require", context |-> n, error |-> c.error,
                       at |-> c.at]
        /\ UNCHANGED <<insert, released>>

RequireC ==
    \E n \in Contexts, requireable \in RequireablesC :
        RequireCOf(n, requireable)

\* handle.release(), for the handle returned by the h-th require of the
\* n-th context that returned.
ReleaseCOf(n, h) ==
    LET c == forEach_releaser(ContextOf(n), handles[n][h].releasers)
    IN  /\ requisitions' = [requisitions EXCEPT
                               ![context(n).requisitions] = c.requisitions]
        /\ heap' = [heap EXCEPT ![context(n).requisitions] = c.heap]
        /\ removed' = [removed EXCEPT ![n] = c.removed]
        /\ released' = IF h \in DOMAIN released[n] THEN released
                        ELSE [released EXCEPT
                                 ![n] = Put(@, h, Len(calls[n]))]
        /\ outcome' = [op |-> "release", context |-> n, error |-> "none",
                       at |-> 0]
        /\ UNCHANGED <<insert, handles, calls, inserted, classifier,
                       classified>>

ReleaseC ==
    \E n \in Contexts : \E h \in 1..Len(handles[n]) : ReleaseCOf(n, h)

\* dispose(), of the n-th context.
DisposeCOf(n) ==
    /\ removed' = [removed EXCEPT
                      ![n] = IF ContextOf(n).insert # "undefined"
                             THEN dispose_removed(ContextOf(n)) ELSE @]
    /\ insert' = [insert EXCEPT ![context(n).insert] = "undefined"]
    /\ outcome' = [op |-> "dispose", context |-> n, error |-> "none",
                   at |-> 0]
    /\ UNCHANGED <<requisitions, heap, handles, calls, inserted, released,
                   classifier, classified>>

DisposeC == \E n \in Contexts : DisposeCOf(n)

NextC == RequireC \/ ReleaseC \/ DisposeC

SpecC == InitC /\ [][NextC]_vars

----------------------------------------------------------------------------
(* The context of src/unnamed/part_002 (2023-10-03), given a classifier    *)
(* made by development() or production(intern).                            *)

\* rule(label, template)(parameters); 'id' is the identity of rule_styler.
Render(id, label, template, parameters) ==
    [typeof |-> "function", styler |-> "rule_styler of render",
     id |-> id, label |-> label, template |-> template,
     parameters |-> parameters]

\* The pieces of a template.
Text(chars) == [placeholder |-> FALSE, chars |-> chars]
Placeholder(key) == [placeholder |-> TRUE, chars |-> key]

\* Values that are not primitive, and null.
Function == Value("function", <<"f", "(", ")", "{", "}">>)
EmptyArray == Value("object", <<>>)
Null == Value("null", <<"n", "u", "l", "l">>)

\* Eleven stylers of one label and one template, called without parameters.
X(id) == Render(id, <<"x">>, <<Text(<<"x">>)>>, <<>>)
Eleven == Array([id \in 1..11 |-> X(id)])

\* A styler called with the same two parameters, in two orders.
CD == Render(12, <<"v">>, <<Placeholder(<<"d">>), Placeholder(<<"c">>)>>,
             << <<<<"c">>, Str(<<"r">>)>>, <<<<"d">>, Str(<<"s">>)>> >>)
DC == Render(12, <<"v">>, <<Placeholder(<<"d">>), Placeholder(<<"c">>)>>,
             << <<<<"d">>, Str(<<"s">>)>>, <<<<"c">>, Str(<<"r">>)>> >>)

\* A styler called with a point, and with the lookalike of the point.
Point == Render(13, <<"w">>, <<Placeholder(<<"c">>)>>,
                << <<<<"c">>, Str(<<".">>)>> >>)
Leader == Render(13, <<"w">>, <<Placeholder(<<"c">>)>>,
                 << <<<<"c">>, Str(<<"U+2024">>)>> >>)

\* A styler called with values that hold the separator of the production
\* classifier.
Under1 == Render(14, <<"u">>, <<Placeholder(<<"a">>), Placeholder(<<"b">>)>>,
                 << <<<<"a">>, Str(<<"1", "_", "b", "_", "2">>)>>,
                    <<<<"b">>, Str(<<"3">>)>> >>)
Under2 == Render(14, <<"u">>, <<Placeholder(<<"a">>), Placeholder(<<"b">>)>>,
                 << <<<<"a">>, Str(<<"1">>)>>,
                    <<<<"b">>, Str(<<"2", "_", "b", "_", "3">>)>> >>)

\* A styler whose template has no placeholder, called with a function, an
\* array and null.
GivenFunction ==
    Render(15, <<"x">>, <<Text(<<"x">>)>>, << <<<<"c">>, Function>> >>)
GivenArray ==
    Render(15, <<"x">>, <<Text(<<"x">>)>>, << <<<<"c">>, EmptyArray>> >>)
GivenNull ==
    Render(15, <<"x">>, <<Text(<<"x">>)>>, << <<<<"c">>, Null>> >>)

\* A rule whose placeholder is given no value.
Lacking ==
    Render(16, <<"m">>, <<Text(<<"c", ":">>), Placeholder(<<"c">>)>>, <<>>)

RequireablesP ==
    {Eleven, Array(<<CD, Array(<<Point, Leader>>), Under1, Under2>>),
     Array(<<X(1), DC>>), Array(<<X(1), GivenNull, GivenArray>>),
     GivenFunction, Array(<<X(2), Array(<<Lacking>>), X(1)>>)}

InitP ==
    /\ insert = "inserter"
    /\ requisitions = EmptyObject
    /\ heap = <<>>
    /\ handles = <<>>
    /\ calls = 0
    /\ inserted = <<>>
    /\ removed = <<>>
    /\ released = EmptyObject
    /\ outcome = [op |-> "context", error |-> "none", at |-> 0]
    /\ classifier \in {Classifier("development", FALSE),
                       Classifier("production", FALSE),
                       Classifier("production", TRUE)}
    /\ classified = <<>>

\* context.require(requireable): the fragments are registered once fragify
\* has returned.  require_fragment is that of src/fstyle.js, but for the
\* arguments it gives the inserter.
RequirePOf(requireable) ==
    LET f == fragify(Flattening, requireable)
        c == IF f.error # "none"
             THEN [Context EXCEPT !.error = f.error]
             ELSE map_require_fragment(Context, f.fragments)
    IN  /\ calls < MaxRequires
        /\ calls' = calls + 1
        /\ classifier' = f.classifier
        /\ classified' = f.classified
        /\ requisitions' = c.requisitions
        /\ heap' = c.heap
        /\ inserted' = c.inserted
        /\ removed' = c.removed
        /\ handles' = IF c.error # "none" THEN handles
                      ELSE Append(handles, [
                               classes |-> [i \in 1..Len(f.fragments) |->
                                               f.fragments[i].class.chars],
                               releasers |-> c.releasers
                           ])
        /\ outcome' = [op |-> "require", error |-> c.error, at |-> c.at]
        /\ UNCHANGED <<insert, released>>

RequireP == \E requireable \in RequireablesP : RequirePOf(requireable)

ReleaseP == \E h \in 1..Len(handles) : ReleaseOf(h)

\* context.dispose(), which also forgets the classifier.
DisposeP ==
    /\ removed' = IF insert # "undefined" THEN dispose_removed(Context)
                  ELSE removed
    /\ insert' = "undefined"
    /\ classifier' = [classifier EXCEPT !.kind = "undefined"]
    /\ outcome' = [op |-> "dispose", error |-> "none", at |-> 0]
    /\ UNCHANGED <<requisitions, heap, handles, calls, inserted, released,
                   classified>>

NextP == RequireP \/ ReleaseP \/ DisposeP

SpecP == InitP /\ [][NextP]_vars

----------------------------------------------------------------------------
(* The stylers of src/unnamed/part_002 (2023-10-03), given their data.     *)

\* A function that takes no arguments and returns the value 'returns', or
\* one that takes an argument and returns the property of 'returns' the
\* argument names.
Returning(returns) == [type |-> "function", returns |-> returns]

\* An object that is given for its properties.
Object(properties) == [type |-> "object", properties |-> properties]

\* An available that looks in the parameters for what the data lack.
available_per_key(data, parameters) ==
    IF typeof(data) = "function" THEN data.returns
    ELSE IF truthy(data) THEN data.properties \o parameters
    ELSE parameters

\* typeof data === "function" ? data(parameters) : data || parameters
available(data, parameters) ==
    IF typeof(data) = "function" THEN data.returns
    ELSE IF truthy(data) THEN data.properties
    ELSE parameters

\* A render that asks the classifier before it replaces the placeholders.
render_classifies_first(f, requireable) ==
    LET rendered == replacer([statements |-> <<>>, used |-> <<>>,
                              error |-> "none"],
                             requireable.template,
                             available(requireable.data,
                                       requireable.parameters))
        r == call_classify(f.classifier, requireable.id, requireable.label,
                           <<>>, requireable.parameters)
    IN  IF r.error # "none"
        THEN [f EXCEPT !.classifier = r.classifier, !.error = r.error]
        ELSE IF rendered.error # "none"
        THEN [f EXCEPT !.classifier = r.classifier,
                       !.error = rendered.error]
        ELSE [f EXCEPT
                 !.classifier = r.classifier,
                 !.classified = Append(@, Classification(
                     requireable.id, requireable.label,
                     requireable.parameters, rendered.used, r.class,
                     r.class)),
                 !.fragments = Append(@, Fragment(
                     Str(encode(r.class)), Str(rendered.statements)))]

\* render(classify, styler, label, template, data, parameters): the
\* fragment is the last of f.fragments.
render(f, requireable) ==
    LET rendered == replacer([statements |-> <<>>, used |-> <<>>,
                              error |-> "none"],
                             requireable.template,
                             available(requireable.data,
                                       requireable.parameters))
        r == call_classify(f.classifier, requireable.id, requireable.label,
                           rendered.used, requireable.parameters)
        full == call_classify([f.classifier EXCEPT !.intern = FALSE],
                              requireable.id, requireable.label,
                              rendered.used, requireable.parameters).class
    IN  IF rendered.error # "none"
        THEN [f EXCEPT !.error = rendered.error]
        ELSE IF r.error # "none"
        THEN [f EXCEPT !.classifier = r.classifier, !.error = r.error]
        ELSE [f EXCEPT
                 !.classifier = r.classifier,
                 !.classified = Append(@, Classification(
                     requireable.id, requireable.label,
                     requireable.parameters, rendered.used, full, r.class)),
                 !.fragments = Append(@, Fragment(
                     Str(encode(r.class)), Str(rendered.statements)))]

\* rule_requireable(classify), of rule(label, template, data)(parameters).
rule_requireable_data(f, requireable) ==
    LET d == render(f, requireable)
        n == Len(d.fragments)
        the_fragment == d.fragments[n]
    IN  IF d.error # "none" THEN d
        ELSE [d EXCEPT !.fragments[n].statements =
                 Str(<<".">> \o the_fragment.class.chars \o <<" ", "{">>
                         \o the_fragment.statements.chars \o <<"}">>)]

\* A replacement of the empty placeholder that stops at the first.
replace_empty_placeholder_once(statements, the_class) ==
    IF \E i \in 1..(Len(statements) - 1) :
           statements[i] = "<" /\ statements[i + 1] = ">"
    THEN LET first == CHOOSE i \in 1..(Len(statements) - 1) :
                          /\ statements[i] = "<" /\ statements[i + 1] = ">"
                          /\ \A j \in 1..(i - 1) :
                                 ~(statements[j] = "<"
                                   /\ statements[j + 1] = ">")
         IN  SubSeq(statements, 1, first - 1) \o the_class
                 \o SubSeq(statements, first + 2, Len(statements))
    ELSE statements

\* statements.replace(rx_empty_placeholder, the_class), the class holding
\* no "$".
RECURSIVE replace_empty_placeholder(_, _)
replace_empty_placeholder(statements, the_class) ==
    IF statements = <<>> THEN <<>>
    ELSE IF /\ Len(statements) >= 2
            /\ statements[1] = "<" /\ statements[2] = ">"
    THEN the_class \o replace_empty_placeholder(
             SubSeq(statements, 3, Len(statements)), the_class)
    ELSE <<Head(statements)>>
             \o replace_empty_placeholder(Tail(statements), the_class)

\* fragment_requireable(classify), of
\* fragment(label, template, data)(parameters).
fragment_requireable_data(f, requireable) ==
    LET d == render(f, requireable)
        n == Len(d.fragments)
        the_fragment == d.fragments[n]
    IN  IF d.error # "none" THEN d
        ELSE [d EXCEPT !.fragments[n].statements =
                 Str(replace_empty_placeholder(
                         the_fragment.statements.chars,
                         the_fragment.class.chars))]

\* rule(label, template, data)(parameters) and
\* fragment(label, template, data)(parameters); 'id' is the identity of the
\* styler.
RuleD(id, label, template, data, parameters) ==
    [typeof |-> "function", styler |-> "rule_styler", id |-> id,
     label |-> label, template |-> template, data |-> data,
     parameters |-> parameters]
FragmentD(id, label, template, data, parameters) ==
    [typeof |-> "function", styler |-> "fragment_styler", id |-> id,
     label |-> label, template |-> template, data |-> data,
     parameters |-> parameters]

\* requireable(classify), for the requireables made with data.
call_requireable_data(f, requireable) ==
    IF requireable.styler = "rule_styler"
    THEN rule_requireable_data(f, requireable)
    ELSE fragment_requireable_data(f, requireable)

----------------------------------------------------------------------------
(* The stylers that are given a name: src/fstyle.js (2021-12-18),          *)
(* src/unnamed/part_001 (2022-02-18), src/unnamed/part_002 (2022-02-28).   *)

\* rx_class_character.test(glyph), of 2022: a letter, a digit, an underbar
\* or a hyphen of ASCII.
rx_class_character_2022_test(glyph) ==
    glyph \in Lower \cup Upper \cup Digit \cup {"_", "-"}

\* new Array(length).join("0")
Array_join_zero(length) == [i \in 1..(length - 1) |-> "0"]

\* An encode of 2022 that lets the backslash through.
encode_2022_backslash(string) ==
    join([i \in 1..Len(string) |->
        IF rx_class_character_2022_test(string[i]) \/ string[i] = "\\"
        THEN <<string[i]>>
        ELSE LET unicode_hex == UpperHexadecimal(CodePointAt[string[i]])
             IN  <<"\\">> \o Array_join_zero(6 - Len(unicode_hex) + 1)
                     \o unicode_hex])

\* encode(value) of 2022, for a value that is a string.
encode_2022(string) ==
    join([i \in 1..Len(string) |->
        IF rx_class_character_2022_test(string[i]) THEN <<string[i]>>
        ELSE LET unicode_hex == UpperHexadecimal(CodePointAt[string[i]])
             IN  <<"\\">> \o Array_join_zero(6 - Len(unicode_hex) + 1)
                     \o unicode_hex])

\* A resolve that calls for as long as it is given a function.
RECURSIVE resolve_repeatedly(_)
resolve_repeatedly(value) ==
    IF typeof(value) = "function" THEN resolve_repeatedly(value.returns)
    ELSE value

\* resolve(value)
resolve(value) ==
    IF typeof(value) = "function" THEN value.returns ELSE value

\* Object.values(object)
values(object) == [i \in 1..Len(object) |-> object[i][2]]

\* array.join("_"), for an array of strings.
RECURSIVE join_underbar(_)
join_underbar(array) ==
    IF array = <<>> THEN <<>>
    ELSE IF Len(array) = 1 THEN array[1]
    ELSE array[1] \o <<"_">> \o join_underbar(Tail(array))

\* identifier(value), of identify(): the classifier keeps the counter and
\* the names.  A function is [type, id, name]: its identity and its name
\* property.
identifier(k, value) ==
    IF typeof(value) = "string" THEN Returned(k, value.chars)
    ELSE IF value.id \in DOMAIN k.ids THEN Returned(k, k.ids[value.id])
    ELSE LET name == <<"u">> \o Decimal(k.counter) \o <<"_">> \o value.name
         IN  Returned([k EXCEPT !.counter = @ + 1,
                                !.ids = Put(@, value.id, name)],
                      name)

\* template.replace(rx_named_placeholder, replacer), of place.  The template
\* is the array of its pieces.  What is left: the replacements, the rules,
\* the error thrown.  A placeholder is not the name of a property of
\* Object.prototype.
RECURSIVE replacer_place(_, _, _)
replacer_place(placed, template, substitutions) ==
    IF template = <<>> \/ placed.error # "none" THEN placed
    ELSE LET piece == Head(template)
             placeholder == piece.chars
             replacements ==
                 IF typeof(substitutions) = "function"
                 THEN set(placed.replacements, placeholder,
                          get(substitutions.returns, placeholder))
                 ELSE IF get(substitutions.properties, placeholder)
                             # undefined
                 THEN set(placed.replacements, placeholder,
                          resolve(get(substitutions.properties,
                                      placeholder)))
                 ELSE placed.replacements
             replacement == get(replacements, placeholder)
         IN  replacer_place(
                 IF ~piece.placeholder
                 THEN [placed EXCEPT !.rules = @ \o piece.chars]
                 ELSE IF substitutions = undefined
                 THEN [placed EXCEPT !.error = "TypeError"]
                 ELSE IF typeof(replacement) \in {"string", "number"}
                 THEN [placed EXCEPT !.replacements = replacements,
                                     !.rules = @ \o replacement.chars]
                 ELSE [placed EXCEPT !.error = "Unreplaceable"],
                 Tail(template), substitutions)

\* The template as it was written, a placeholder between its brackets.
text(template) ==
    join([i \in 1..Len(template) |->
        IF template[i].placeholder
        THEN <<"<">> \o template[i].chars \o <<">">>
        ELSE template[i].chars])

\* The record of one fragment made by place.
Placed(styler, replacements, class, rules) ==
    [styler |-> styler, replacements |-> replacements, class |-> class,
     rules |-> rules]

\* place(name, template, substitutions, parameters, identifier), of
\* src/unnamed/part_002: the fragment is the only one of f.fragments.
place(f, styler) ==
    LET placed == replacer_place([replacements |-> <<>>, rules |-> <<>>,
                                  error |-> "none"],
                                 styler.template, styler.substitutions)
        parameters == IF styler.parameters = undefined
                      THEN values(placed.replacements)
                      ELSE styler.parameters.items
        named == identifier(f.classifier, styler.name)
        the_class == join_underbar(
            <<encode_2022(named.class)>>
                \o [i \in 1..Len(parameters) |->
                       encode_2022(resolve(parameters[i]).chars)])
    IN  IF placed.error # "none"
        THEN [f EXCEPT !.error = placed.error]
        ELSE [f EXCEPT
                 !.classifier = named.classifier,
                 !.classified = Append(@, Placed(
                     styler, values(placed.replacements), the_class,
                     placed.rules)),
                 !.fragments = <<FragmentV(Str(the_class),
                                           Str(placed.rules))>>]

\* The reduction of place over the replacements, of src/unnamed/part_001.
RECURSIVE hone(_, _)
hone(class_name, replacements) ==
    IF replacements = <<>> THEN class_name
    ELSE hone(class_name \o <<"_">>
                  \o encode_2022(Head(replacements).chars),
              Tail(replacements))

\* place(name, template, substitutions), of src/unnamed/part_001, for a
\* name that is a string or a function.
place_2022_02_18(f, styler) ==
    LET placed == replacer_place([replacements |-> <<>>, rules |-> <<>>,
                                  error |-> "none"],
                                 styler.template, styler.substitutions)
        the_class == IF typeof(styler.name) = "string"
                     THEN hone(styler.name.chars,
                               values(placed.replacements))
                     ELSE styler.name.returns.chars
    IN  IF placed.error # "none"
        THEN [f EXCEPT !.error = placed.error]
        ELSE [f EXCEPT
                 !.classified = Append(@, Placed(
                     styler, values(placed.replacements), the_class,
                     placed.rules)),
                 !.fragments = <<FragmentV(Str(the_class),
                                           Str(placed.rules))>>]

\* fragment_styler(), of src/fstyle.js (2021-12-18).
fragment_2021_12_18(f, styler) ==
    LET placed == IF styler.substitutions # undefined
                  THEN replacer_place(
                           [replacements |-> <<>>, rules |-> <<>>,
                            error |-> "none"],
                           styler.template, styler.substitutions)
                  ELSE [replacements |-> <<>>,
                        rules |-> text(styler.template),
                        error |-> "none"]
        the_class == resolve(styler.name).chars
    IN  IF placed.error # "none"
        THEN [f EXCEPT !.error = placed.error]
        ELSE [f EXCEPT
                 !.classified = Append(@, Placed(
                     styler, values(placed.replacements), the_class,
                     placed.rules)),
                 !.fragments = <<FragmentV(Str(the_class),
                                           Str(placed.rules))>>]

\* A styler: what the closure of rule_styler or fragment_styler keeps.
Styler(snapshot, styler, name, template, substitutions, parameters) ==
    [snapshot |-> snapshot, styler |-> styler, name |-> name,
     template |-> template, substitutions |-> substitutions,
     parameters |-> parameters]

\* mix(styler_array)
Mix(snapshot, styler_array) ==
    [snapshot |-> snapshot, styler |-> "mix_styler", items |-> styler_array]

\* The rules of a rule: the declarations in the class selector.
ruleset(f, the_class) ==
    IF f.error # "none" THEN f
    ELSE [f EXCEPT !.fragments[1].rules =
             Str(<<".">> \o the_class \o <<" ", "{">> \o @.chars
                     \o <<"}">>)]

\* The rules of a fragment: the empty placeholders replaced by the class,
\* which holds no "$".
classed(f) ==
    IF f.error # "none" THEN f
    ELSE [f EXCEPT !.fragments[1].rules =
             Str(replace_empty_placeholder(@.chars,
                                           f.fragments[1].class.chars))]

\* rule_styler(), of src/unnamed/part_001, for a name that is a string when
\* there are no substitutions.
rule_2022_02_18(f, styler) ==
    IF styler.substitutions = undefined
    THEN [f EXCEPT
             !.classified = Append(@, Placed(
                 styler, <<>>, styler.name.chars, text(styler.template))),
             !.fragments = <<FragmentV(
                 styler.name,
                 Str(<<".">> \o styler.name.chars \o <<" ", "{">>
                         \o text(styler.template) \o <<"}">>))>>]
    ELSE LET d == place_2022_02_18(f, styler)
         IN  IF d.error # "none" THEN d
             ELSE ruleset(d, d.fragments[1].class.chars)

RECURSIVE call_styler(_, _)

\* A reduction that puts the fragments of a styler before those of the
\* stylers before it.
RECURSIVE reduce_backwards(_, _, _)
reduce_backwards(f, fragments, styler_array) ==
    IF f.error # "none" THEN f
    ELSE IF styler_array = <<>> THEN [f EXCEPT !.fragments = fragments]
    ELSE LET d == call_styler(f, Head(styler_array))
         IN  reduce_backwards(d, d.fragments \o fragments,
                              Tail(styler_array))

\* styler_array.reduce(..., []), of mix_styler of src/unnamed/part_002:
\* fragments.concat(styler(identifier)).
RECURSIVE reduce_concat(_, _, _)
reduce_concat(f, fragments, styler_array) ==
    IF f.error # "none" THEN f
    ELSE IF styler_array = <<>> THEN [f EXCEPT !.fragments = fragments]
    ELSE LET d == call_styler(f, Head(styler_array))
         IN  reduce_concat(d, fragments \o d.fragments, Tail(styler_array))

\* styler_array.reduce(smush, []), of src/unnamed/part_001, and
\* styler_array.reduce(flatten, []), of src/fstyle.js:
\* styler().concat(fragments).
RECURSIVE reduce_smush(_, _, _)
reduce_smush(f, fragments, styler_array) ==
    IF f.error # "none" THEN f
    ELSE IF styler_array = <<>> THEN [f EXCEPT !.fragments = fragments]
    ELSE LET d == call_styler(f, Head(styler_array))
         IN  reduce_smush(d, d.fragments \o fragments, Tail(styler_array))

\* styler(identifier), or styler() where there is no identifier.  What is
\* left in f.fragments is the array the styler returns.
call_styler(f, styler) ==
    IF styler.styler = "mix_styler"
    THEN IF styler.snapshot = "2022-02-28"
         THEN reduce_concat(f, <<>>, styler.items)
         ELSE reduce_smush(f, <<>>, styler.items)
    ELSE IF styler.snapshot = "2022-02-28"
    THEN IF styler.styler = "rule_styler"
         THEN LET d == place(f, styler)
              IN  IF d.error # "none" THEN d
                  ELSE ruleset(d, d.fragments[1].class.chars)
         ELSE classed(place(f, styler))
    ELSE IF styler.snapshot = "2022-02-18"
    THEN IF styler.styler = "rule_styler"
         THEN rule_2022_02_18(f, styler)
         ELSE classed(place_2022_02_18(f, styler))
    ELSE IF styler.styler = "rule_styler"
         THEN ruleset(fragment_2021_12_18(f, styler),
                      resolve(styler.name).chars)
         ELSE fragment_2021_12_18(f, styler)

\* none()
none(snapshot) == Mix(snapshot, <<>>)

----------------------------------------------------------------------------
(* The stylers called one after another, each with the classifier or the   *)
(* identifier of one context.                                              *)

True == Value("boolean", <<"t", "r", "u", "e">>)
Property(key, value) == <<key, value>>
KeyC == <<"c">>
KeyD == <<"d">>
KeyX == <<"x">>
KeyY == <<"y">>

\* Stylers of src/unnamed/part_002 (2023-10-03) called with parameters: the
\* values come from the parameters, from an object of data, from a function
\* of data; a value is missing, undefined, null, a boolean, an array, a
\* function; the data lack a key the parameters have; the statements hold
\* the empty placeholder.
RequireablesD ==
    {RuleD(1, <<"r">>, <<Text(<<"c", ":">>), Placeholder(KeyC)>>, undefined,
           <<Property(KeyC, Str(<<"r">>))>>),
     RuleD(1, <<"r">>, <<Text(<<"c", ":">>), Placeholder(KeyC)>>,
           Object(<<Property(KeyC, Str(<<"s">>))>>),
           <<Property(KeyC, Str(<<"r">>))>>),
     RuleD(1, <<"r">>, <<Placeholder(KeyC), Placeholder(KeyD)>>,
           Object(<<Property(KeyC, Str(<<"s">>))>>),
           <<Property(KeyD, Str(<<"t">>))>>),
     RuleD(2, <<"r">>, <<Placeholder(KeyC), Text(<<";">>), Placeholder(KeyC)>>,
           Returning(<<Property(KeyC, Number(<<"1">>))>>), <<>>),
     RuleD(2, <<"r">>, <<Placeholder(KeyC)>>, Null,
           <<Property(KeyC, Str(<<"r">>))>>),
     RuleD(3, <<"m">>, <<Text(<<"c">>), Placeholder(KeyC)>>, undefined, <<>>),
     RuleD(3, <<"m">>, <<Placeholder(KeyC)>>, undefined,
           <<Property(KeyC, Null)>>),
     RuleD(3, <<"m">>, <<Placeholder(KeyD), Placeholder(KeyC)>>,
           Object(<<Property(KeyC, True), Property(KeyD, Str(<<"t">>))>>), <<>>),
     RuleD(3, <<"m">>, <<Placeholder(KeyC)>>,
           Object(<<Property(KeyC, EmptyArray)>>), <<>>),
     RuleD(3, <<"m">>, <<Placeholder(KeyC)>>,
           Object(<<Property(KeyC, undefined)>>),
           <<Property(KeyC, Str(<<"r">>))>>),
     FragmentD(4, <<"k">>, <<Placeholder(KeyC)>>, undefined,
               <<Property(KeyC, Returning(Str(<<"r">>)))>>),
     FragmentD(4, <<"k">>,
               <<Text(<<"<", ">", "{">>), Placeholder(KeyC),
                 Text(<<"}", "<", "<", ">", ">">>)>>,
               undefined, <<Property(KeyC, Str(<<"<", ">">>))>>),
     FragmentD(4, <<"k">>, <<Text(<<"z">>)>>, undefined, <<>>)}

\* Stylers of src/fstyle.js (2023-10-25) called with parameters: rules, a
\* fragment whose statements hold the empty placeholder twice, and one
\* whose statements hold it between brackets and at the end.
RequireablesL ==
    {L1, L2, L1c, L3dc, K3,
     Css(T3, <<<<<<"c">>, Str(<<"r">>)>>>>,
         <<"[", "[", "]", "]", "r", "[", "]">>)}

\* A function that is given for a name: its identity, its name property,
\* what it returns.
Named(id, name) ==
    [type |-> "function", id |-> id, name |-> name,
     returns |-> Str(name)]

\* The stylers of a snapshot that the three snapshots have alike: two rules
\* of one name and one template whose replacements differ, a value that is
\* a function, a value that is a function that returns a function,
\* substitutions that are a function, substitutions that are a function
\* that returns a function.
Alike(snapshot) ==
    {Styler(snapshot, "rule_styler", Str(<<"a">>),
            <<Placeholder(KeyX), Text(<<" ">>), Placeholder(KeyY)>>,
            Object(<<Property(KeyX, Str(<<"a", "_", "b">>)),
                     Property(KeyY, Str(<<"c">>))>>), undefined),
     Styler(snapshot, "rule_styler", Str(<<"a">>),
            <<Placeholder(KeyX), Text(<<" ">>), Placeholder(KeyY)>>,
            Object(<<Property(KeyX, Str(<<"a">>)),
                     Property(KeyY, Str(<<"b", "_", "c">>))>>), undefined),
     Styler(snapshot, "fragment_styler", Str(<<"b">>),
            <<Text(<<"<", ">", ":">>), Placeholder(KeyX)>>,
            Object(<<Property(KeyX, Returning(Number(<<"1", ".", "4">>)))>>),
            undefined),
     Styler(snapshot, "rule_styler", Str(<<"b">>), <<Placeholder(KeyX)>>,
            Object(<<Property(KeyX, Returning(Returning(Str(<<"r">>))))>>),
            undefined),
     Styler(snapshot, "rule_styler", Str(<<"b">>),
            <<Placeholder(KeyX), Placeholder(KeyX)>>,
            Returning(<<Property(KeyX, Str(<<"r">>))>>), undefined),
     Styler(snapshot, "fragment_styler", Str(<<"b">>), <<Placeholder(KeyX)>>,
            Returning(<<Property(KeyX, Returning(Str(<<"r">>)))>>),
            undefined)}

Foo(snapshot, id) ==
    Styler(snapshot, "rule_styler", Named(id, <<"f", "o", "o">>),
           <<Text(<<"x">>)>>, Object(<<>>), undefined)
U0Foo(snapshot) ==
    Styler(snapshot, "rule_styler",
           Str(<<"u", "0", "_", "f", "o", "o">>), <<Text(<<"y">>)>>,
           Object(<<>>), undefined)
Bare(snapshot) ==
    Styler(snapshot, "rule_styler", Str(<<"n">>),
           <<Text(<<"c", ":">>), Placeholder(KeyX)>>, undefined, undefined)
Two(snapshot) ==
    Styler(snapshot, "rule_styler", Str(<<"t">>),
           <<Placeholder(KeyX), Placeholder(KeyY)>>,
           Object(<<Property(KeyY, Str(<<"2">>)),
                    Property(KeyX, Str(<<"1">>))>>), undefined)
Spaced(snapshot) ==
    Styler(snapshot, "rule_styler", Str(<<"s">>),
           <<Text(<<"c", ":">>), Placeholder(KeyX)>>,
           Object(<<Property(KeyX, Str(<<" ">>))>>), undefined)
Mixed(snapshot) ==
    Mix(snapshot,
        <<Two(snapshot),
          Mix(snapshot,
              <<Foo(snapshot, 1), none(snapshot), Spaced(snapshot)>>),
          U0Foo(snapshot), Two(snapshot)>>)

\* The stylers of src/unnamed/part_002 (2022-02-28): also a value that is
\* missing, null, a boolean, an array; a name that is a function; a name
\* that is the string the identifier makes for a function; parameters.
Stylers_2022_02_28 ==
    Alike("2022-02-28")
    \cup {Foo("2022-02-28", 1), Foo("2022-02-28", 2), U0Foo("2022-02-28"),
          Mixed("2022-02-28"), none("2022-02-28"), Bare("2022-02-28"),
          Styler("2022-02-28", "rule_styler", Str(<<"p">>),
                 <<Placeholder(KeyX)>>, Object(<<Property(KeyX, Str(<<"r">>))>>),
                 [items |-> <<Returning(Str(<<"#">>)), Number(<<"2">>)>>]),
          Styler("2022-02-28", "rule_styler", Str(<<"m">>),
                 <<Placeholder(KeyX), Placeholder(KeyY)>>,
                 Object(<<Property(KeyX, Str(<<"r">>))>>), undefined),
          Styler("2022-02-28", "rule_styler", Str(<<"m">>),
                 <<Placeholder(KeyX)>>, Object(<<Property(KeyX, Null)>>),
                 undefined),
          Styler("2022-02-28", "fragment_styler", Str(<<"m">>),
                 <<Placeholder(KeyY), Placeholder(KeyX)>>,
                 Object(<<Property(KeyX, True), Property(KeyY, Str(<<"r">>))>>),
                 undefined),
          Styler("2022-02-28", "rule_styler", Str(<<"m">>),
                 <<Placeholder(KeyX)>>, Returning(<<Property(KeyX, EmptyArray)>>),
                 undefined)}

\* The stylers of src/unnamed/part_001 (2022-02-18): also a rule without
\* substitutions, and a name that is a function.
Stylers_2022_02_18 ==
    Alike("2022-02-18")
    \cup {Foo("2022-02-18", 1), Bare("2022-02-18"), Mixed("2022-02-18"),
          none("2022-02-18")}

\* The stylers of src/fstyle.js (2021-12-18): also a fragment without
\* substitutions, and a class that is a function.
Stylers_2021_12_18 ==
    Alike("2021-12-18")
    \cup {Foo("2021-12-18", 1), Bare("2021-12-18"), Mixed("2021-12-18"),
          none("2021-12-18"),
          [Bare("2021-12-18") EXCEPT !.styler = "fragment_styler"]}

InitF ==
    /\ insert = "inserter"
    /\ requisitions = EmptyObject
    /\ heap = <<>>
    /\ handles = <<>>
    /\ calls = 0
    /\ inserted = <<>>
    /\ removed = <<>>
    /\ released = EmptyObject
    /\ outcome = [op |-> "context", error |-> "none", at |-> 0]
    /\ classifier \in {Classifier("development", FALSE),
                       Classifier("production", FALSE),
                       Classifier("production", TRUE),
                       Classifier("context", FALSE),
                       Classifier("context", TRUE),
                       Classifier("identify", FALSE),
                       Classifier("2022-02-18", FALSE),
                       Classifier("2021-12-18", FALSE)}
    /\ classified = <<>>

\* What a call of a styler or of a requireable leaves.
CalledF(input, f) ==
    /\ calls < MaxCalls
    /\ calls' = calls + 1
    /\ classifier' = f.classifier
    /\ classified' = f.classified
    /\ outcome' = [op |-> "call", input |-> input, error |-> f.error,
                   fragments |-> IF f.error = "none" THEN f.fragments
                                 ELSE <<>>,
                   at |-> 0]
    /\ UNCHANGED <<insert, requisitions, heap, handles, inserted, removed,
                   released>>

\* requireable(classify), with the classifier of development() or
\* production(intern)
CallRequireable ==
    /\ classifier.kind \in {"development", "production"}
    /\ \E requireable \in RequireablesD :
           CalledF(requireable, call_requireable_data(Flattening, requireable))

\* requireable(classify), with the classify of the context of src/fstyle.js
CallRequireable_2023_10_25 ==
    /\ classifier.kind = "context"
    /\ \E requireable \in RequireablesL :
           CalledF(requireable, call_requireable(Flattening, requireable))

\* styler(identifier), with the identifier of identify()
CallStyler_2022_02_28 ==
    /\ classifier.kind = "identify"
    /\ \E styler \in Stylers_2022_02_28 :
           CalledF(styler, call_styler(Flattening, styler))

\* styler(), of src/unnamed/part_001
CallStyler_2022_02_18 ==
    /\ classifier.kind = "2022-02-18"
    /\ \E styler \in Stylers_2022_02_18 :
           CalledF(styler, call_styler(Flattening, styler))

\* styler(), of src/fstyle.js (2021-12-18)
CallStyler_2021_12_18 ==
    /\ classifier.kind = "2021-12-18"
    /\ \E styler \in Stylers_2021_12_18 :
           CalledF(styler, call_styler(Flattening, styler))

NextF ==
    \/ CallRequireable
    \/ CallRequireable_2023_10_25
    \/ CallStyler_2022_02_28
    \/ CallStyler_2022_02_18
    \/ CallStyler_2021_12_18

SpecF == InitF /\ [][NextF]_vars

----------------------------------------------------------------------------
(* encode, called with one string after another. *)

\* The glyphs the strings are made of: what Array.from makes of a string.
\* They are letters, a digit, the underbar, the hyphen, the backslash, the
\* space, and the code points at both ends of the ranges.
Glyphs ==
    {"a", "Z", "0", "_", "-", "\\", " ", "U+0009", "U+0090", "U+009F",
     "U+00A0", "U+FFFF", "U+10000", "U+10001", "U+10FFFF"}

\* Number of glyphs of the longest string.
MaxLength == 2

Strings == UNION {[1..n -> Glyphs] : n \in 0..MaxLength}

InitE ==
    /\ insert = "inserter"
    /\ requisitions = EmptyObject
    /\ heap = <<>>
    /\ handles = <<>>
    /\ calls = 0
    /\ inserted = <<>>
    /\ removed = <<>>
    /\ released = EmptyObject
    /\ outcome \in {[op |-> "string", string |-> string, error |-> "none",
                      at |-> 0] : string \in Strings}
    /\ classifier = Classifier("context", FALSE)
    /\ classified = <<>>

\* encode(string), of 2023 and of 2022
Encode ==
    /\ outcome.op = "string"
    /\ outcome' = [op |-> "encode", string |-> outcome.string,
                   encoded |-> encode(outcome.string),
                   encoded_2022 |-> encode_2022(outcome.string),
                   error |-> "none", at |-> 0]
    /\ UNCHANGED <<insert, requisitions, heap, handles, calls, inserted,
                   removed, released, classifier, classified>>

NextE == Encode

SpecE == InitE /\ [][NextE]_vars

----------------------------------------------------------------------------
(* What a caller and the page can observe. *)

\* The context has not been disposed.
Active == insert = "inserter"

\* The handles whose release has never been called.
Unreleased == {h \in 1..Len(handles) : h \notin DOMAIN released}

\* The handle's classes contain the class.
Holds(h, class) ==
    \E i \in 1..Len(handles[h].classes) : handles[h].classes[i] = class

\* The class is on the page: the inserter was called for it and the remover
\* of that insertion has not been called.
Installed(class) ==
    \E k \in 1..Len(inserted) :
        inserted[k].class.chars = class /\ removed[k] = 0

\* The reference objects made for a handle's fragments.
ReferencesOf(h) ==
    {handles[h].releasers[i].reference : i \in 1..Len(handles[h].releasers)}

\* The set of the elements of an array.
Elements(array) == {array[i] : i \in 1..Len(array)}

\* The table's requisition whose remover is the k-th one, if any.
RequisitionsRemovedBy(k) ==
    {class \in DOMAIN requisitions : heap[requisitions[class]].remove = k}

\* The fragments of a flattened requireable that are the first of their class,
\* the classes in 'present' not counted.
RECURSIVE FirstOfClass(_, _)
FirstOfClass(fragments, present) ==
    IF fragments = <<>> THEN <<>>
    ELSE IF Head(fragments).class.chars \in present
    THEN FirstOfClass(Tail(fragments), present)
    ELSE <<Head(fragments)>> \o FirstOfClass(
             Tail(fragments), present \cup {Head(fragments).class.chars})

----------------------------------------------------------------------------
(* Claims on the context that exposes require and dispose. *)

C1_Step ==
    Active =>
        /\ \A fragments \in Requireables :
               RequireOf(fragments) =>
                   /\ inserted' = inserted
                          \o FirstOfClass(fragments, DOMAIN requisitions)
                   /\ \A k \in 1..Len(removed) : removed'[k] = removed[k]
        /\ \A h \in 1..Len(handles) :
               ReleaseOf(h) =>
                   /\ inserted' = inserted
                   /\ \A k \in 1..Len(removed) :
                          removed'[k] # removed[k] =>
                              /\ removed'[k] = removed[k] + 1
                              /\ \E r \in 1..Len(heap) :
                                     /\ heap[r].remove = k
                                     /\ heap[r].references # <<>>
                                     /\ Elements(heap[r].references)
                                            \subseteq ReferencesOf(h)
                                     /\ heap'[r].references = <<>>

\* C1: on an active context, require calls the inserter for exactly the
\* fragments whose class has no requisition in the table at that moment (the
\* first fragment of each class that the table lacks), and release calls a
\* remover only of a requisition whose last references it has just removed.
C1_InsertOnFirstRemoveOnLast == [][C1_Step]_vars

C1_Witness ==
    /\ Active
    /\ outcome.op = "release"
    /\ \E k \in 1..Len(removed) : removed[k] = 1
    /\ \E class \in DOMAIN requisitions :
           Len(heap[requisitions[class]].references) >= 2
    /\ Len(inserted) = 2

\* The handles so far come from N require calls of one fragment each, all of
\* one class, and no release was called before the N-th require.
SameClassHandles ==
    /\ Active
    /\ Len(handles) >= 1
    /\ calls = Len(handles)
    /\ \A h \in 1..Len(handles) : handles[h].classes = handles[1].classes
    /\ Len(handles[1].classes) = 1
    /\ \A h \in DOMAIN released : released[h] = calls

\* C2: N handles of one fragment each, of the same class: the inserter was
\* called once in all; while fewer than N of them are released the remover has
\* not been called; when all N are released it has been called exactly once.
C2_RemovedAfterLastOfN ==
    SameClassHandles =>
        /\ Len(inserted) = 1
        /\ removed = <<IF Unreleased = {} THEN 1 ELSE 0>>

C2_Witness ==
    /\ SameClassHandles
    /\ Len(handles) = 3
    /\ Cardinality(Unreleased) = 1
    /\ removed = <<0>>

C2_WitnessLast ==
    /\ SameClassHandles
    /\ Len(handles) = 3
    /\ Unreleased = {}
    /\ removed = <<1>>

C4_Step ==
    \A h \in DOMAIN released :
        ReleaseOf(h) =>
            /\ removed' = removed
            /\ heap' = heap
            /\ requisitions' = requisitions

\* C4: a second or later release of a handle calls no remover and changes no
\* requisition, also when its class was removed and required again since.
C4_SecondReleaseIsNoOp == [][C4_Step]_vars

C4_Witness ==
    /\ Active
    /\ outcome.op = "release"
    /\ Len(handles) = 2
    /\ handles[1].classes = <<A>>
    /\ handles[2].classes = <<A>>
    /\ DOMAIN released = {1}
    /\ released[1] = 1
    /\ removed = <<1, 0>>
    /\ Installed(A)

\* C5: every remover returned by the inserter is called at most once, over
\* any sequence of require, release and dispose.
C5_RemoverCalledAtMostOnce ==
    \A k \in 1..Len(removed) : removed[k] <= 1

C6_Step ==
    ~Active =>
        \A fragments \in Requireables :
            RequireOf(fragments) =>
                /\ outcome'.error # "none"
                /\ heap' = heap
                /\ inserted' = inserted

\* C6: after dispose every require fails with an error, for every requireable,
\* and it adds no reference and calls no inserter.
C6_RequireFailsAfterDispose == [][C6_Step]_vars

C7_Step ==
    /\ ~Active => insert' = "undefined"
    /\ outcome'.op = "dispose" =>
           /\ insert' = "undefined"
           /\ \A k \in 1..Len(removed) :
                  removed'[k] = removed[k] + (
                      IF Active /\ RequisitionsRemovedBy(k) # {}
                      THEN 1 ELSE 0)

\* C7: dispose on an active context calls the remover of every requisition of
\* the table exactly once, whatever its number of references, and no other; a
\* dispose of a disposed context calls none; a disposed context stays disposed.
C7_DisposeRemovesEachOnce == [][C7_Step]_vars

C7_Witness ==
    /\ outcome.op = "dispose"
    /\ ~Active
    /\ \E class \in DOMAIN requisitions :
           /\ Len(heap[requisitions[class]].references) >= 2
           /\ removed[heap[requisitions[class]].remove] = 1
    /\ \E class \in DOMAIN requisitions :
           /\ Len(heap[requisitions[class]].references) = 1
           /\ removed[heap[requisitions[class]].remove] = 1
    /\ \E k \in 1..Len(removed) :
           RequisitionsRemovedBy(k) = {} /\ removed[k] = 1

\* C8: a fragment whose class is the class of a live requisition and whose
\* statements differ from the stored statements is not registered (require
\* throws), so the fragments of all unreleased handles that share a class
\* have equal statements.
C8_EqualClassEqualStatements ==
    /\ \A h \in 1..Len(handles) :
           \A i \in 1..Len(handles[h].releasers) :
               heap[handles[h].releasers[i].requisition].statements
                   = handles[h].releasers[i].fragment.statements
    /\ \A g, h \in Unreleased :
           \A i \in 1..Len(handles[g].releasers) :
               \A j \in 1..Len(handles[h].releasers) :
                   handles[g].releasers[i].fragment.class
                           = handles[h].releasers[j].fragment.class
                       => handles[g].releasers[i].fragment.statements
                           = handles[h].releasers[j].fragment.statements

----------------------------------------------------------------------------
(* Claims on the validating context. *)

\* The class values the validating context is given, and their strings.
ClassValuesV ==
    UNION {{fragments[i].class : i \in 1..Len(fragments)} :
              fragments \in RequireablesV}

ClassStringsV == {class.chars : class \in ClassValuesV}

\* The inserter's calls of a step, for one class.
InsertedFor(class, before, after) ==
    {k \in (Len(before) + 1)..Len(after) : after[k].class.chars = class}

\* The classes of the fragments that precede the k-th.
ClassesBefore(fragments, k) ==
    {fragments[i].class.chars : i \in 1..(k - 1)}

\* The class has the same requisition, untouched, and no new insertion.
Untouched(class) ==
    /\ (class \in DOMAIN requisitions') <=> (class \in DOMAIN requisitions)
    /\ class \in DOMAIN requisitions =>
           /\ requisitions'[class] = requisitions[class]
           /\ heap'[requisitions[class]] = heap[requisitions[class]]
    /\ InsertedFor(class, inserted, inserted') = {}

\* No remover was called.
NothingRemoved == \A k \in 1..Len(removed) : removed'[k] = removed[k]

C9_OriginalStep ==
    \A fragments \in RequireablesV :
        RequireVOf(fragments) /\ outcome'.error = "Fragment changed" =>
            /\ Untouched(fragments[outcome'.at].class.chars)
            /\ NothingRemoved

\* C9 as claimed: a require that fails because a fragment's rules differ from
\* the stored rules of its class leaves that class's requisition unchanged
\* (reference count, stored rules, no inserter call, no remover call).
C9_FailedRequireLeavesClass == [][C9_OriginalStep]_vars

C9_AmendedStep ==
    \A fragments \in RequireablesV :
        RequireVOf(fragments) /\ outcome'.error = "Fragment changed" =>
            LET k == outcome'.at
                class == fragments[k].class.chars
                earlier == {i \in 1..(k - 1) : fragments[i].class.chars = class}
            IN  /\ handles' = handles
                /\ NothingRemoved
                /\ \A other \in ClassStringsV \ ClassesBefore(fragments, k) :
                       Untouched(other)
                /\ class \in DOMAIN requisitions'
                /\ heap'[requisitions'[class]].rules # fragments[k].rules
                /\ <<calls + 1, k>> \notin
                       Elements(heap'[requisitions'[class]].references)
                /\ class \in DOMAIN requisitions =>
                       /\ requisitions'[class] = requisitions[class]
                       /\ heap'[requisitions[class]].rules
                              = heap[requisitions[class]].rules
                       /\ heap'[requisitions[class]].remove
                              = heap[requisitions[class]].remove
                       /\ Len(heap'[requisitions[class]].references)
                              = Len(heap[requisitions[class]].references)
                                    + Cardinality(earlier)
                       /\ InsertedFor(class, inserted, inserted') = {}
                /\ k = 1 =>
                       /\ requisitions' = requisitions
                       /\ heap' = heap
                       /\ inserted' = inserted
                       /\ removed' = removed

\* C9 amended: such a require returns no handle, calls no remover, adds no
\* reference for the failing fragment and leaves untouched the requisition of
\* every class that no earlier fragment of the same call has; the failing
\* fragment's class keeps its stored rules and its insertion, and gains one
\* reference per earlier fragment of the call that has the class.  A call that
\* fails at its first fragment changes nothing.
C9_FailedRequireKeepsEarlier == [][C9_AmendedStep]_vars

C9_Witness ==
    /\ outcome.op = "require"
    /\ outcome.error = "Fragment changed"
    /\ outcome.at = 2
    /\ Len(handles) = 1
    /\ handles[1].classes = <<A>>
    /\ B \in DOMAIN requisitions
    /\ Len(heap[requisitions[A]].references) = 1
    /\ heap[requisitions[A]].rules = Str(R1)

\* The class-token grammar: a letter or an underscore, then tokens, each a
\* letter, a digit, an underscore, a hyphen, or a backslash and six uppercase
\* hexadecimal digits.  'starts' are the places where the tokens start.
IsToken(string) ==
    \/ /\ Len(string) = 1
       /\ string[1] \in {"_", "-"} \cup Lower \cup Upper \cup Digit
    \/ /\ Len(string) = 7
       /\ string[1] = "\\"
       /\ \A j \in 2..7 : string[j] \in UpperHex

InGrammar(string) ==
    /\ Len(string) >= 1
    /\ string[1] \in {"_"} \cup Lower \cup Upper
    /\ \E starts \in SUBSET (2..(Len(string) + 1)) :
           /\ Len(string) + 1 \in starts
           /\ Len(string) >= 2 => 2 \in starts
           /\ \A p \in starts \ {Len(string) + 1} :
                  LET q == CHOOSE n \in starts :
                               n > p /\ \A m \in starts : m > p => m >= n
                  IN  IsToken(SubSeq(string, p, q - 1))

\* The class values given to the validating context that are strings of the
\* grammar.
ClassesInGrammar ==
    {class \in ClassValuesV : class.type = "string" /\ InGrammar(class.chars)}

C10_Step ==
    \A fragments \in RequireablesV :
        RequireVOf(fragments) =>
            \A k \in 1..Len(fragments) :
                fragments[k].class \notin ClassesInGrammar =>
                    /\ outcome'.error # "none"
                    /\ outcome'.at <= k
                    /\ outcome'.at = k => outcome'.error = "Bad class."
                    /\ handles' = handles
                    /\ \A r \in 1..Len(heap') :
                           <<calls + 1, k>> \notin Elements(heap'[r].references)
                    /\ \A j \in (Len(inserted) + 1)..Len(inserted') :
                           /\ inserted'[j].class \in ClassesInGrammar
                           /\ \E i \in 1..(k - 1) : inserted'[j] = fragments[i]

C11_OnlyNonEmptyStringRules ==
    /\ \A k \in 1..Len(inserted) :
           inserted[k].rules.type = "string" /\ inserted[k].rules.chars # <<>>
    /\ \A class \in DOMAIN requisitions :
           /\ heap[requisitions[class]].rules.type = "string"
           /\ heap[requisitions[class]].rules.chars # <<>>

----------------------------------------------------------------------------
(* Claims on the validating context with an inserter that may throw. *)

\* The first k fragments of an array.
Prefix(fragments, k) == SubSeq(fragments, 1, k)

C12_Step ==
    \A fragments \in RequireablesT, throws \in Throws :
        RequireTOf(fragments, throws) /\ outcome'.error # "none" =>
            LET k == outcome'.at
                earlier == Prefix(fragments, k - 1)
            IN  /\ k \in 1..Len(fragments)
                /\ handles' = handles
                /\ inserted' = inserted
                       \o FirstOfClass(earlier, DOMAIN requisitions)
                /\ removed' = removed
                       \o [j \in 1..(Len(inserted') - Len(inserted)) |-> 0]
                /\ \A i \in 1..(k - 1) :
                       LET class == fragments[i].class.chars
                       IN  /\ class \in DOMAIN requisitions'
                           /\ Includes(heap'[requisitions'[class]].references,
                                       <<calls', i>>)
                           /\ \E j \in 1..Len(inserted') :
                                  /\ inserted'[j].class.chars = class
                                  /\ removed'[j] = 0
                           /\ \A h \in 1..Len(handles') :
                                  <<calls', i>> \notin
                                      {handles'[h].releasers[n].reference :
                                          n \in 1..Len(handles'[h].releasers)}

\* C12: when require fails at the k-th fragment of the array (bad class, bad
\* rules, changed rules, or an exception of the inserter), the registrations
\* of fragments 1..k-1 made by that call are not rolled back: their
\* references stay counted, the rules inserted for them stay on the page, and
\* no handle holds the releasers that could give the references up.
C12_FailedRequireKeepsRegistrations == [][C12_Step]_vars

\* The inserter threw for the second fragment of the first call, whose first
\* fragment stays registered.
C12_Witness ==
    /\ outcome = [op |-> "require", error |-> "inserter threw", at |-> 2]
    /\ calls = 1
    /\ handles = <<>>
    /\ DOMAIN requisitions = {A}
    /\ heap[requisitions[A]].references = <<<<1, 1>>>>
    /\ inserted = <<VA1>>
    /\ removed = <<0>>

\* A call failed at its third fragment.
C12_WitnessThird ==
    /\ outcome = [op |-> "require", error |-> "Fragment changed", at |-> 3]
    /\ DOMAIN requisitions = {A, B}

----------------------------------------------------------------------------
(* Claims on the context of src/fstyle.js with its classifier. *)

\* The functions at the leaves of a requireable, depth first, left to right.
RECURSIVE LeavesOf(_)
LeavesOf(requireable) ==
    IF requireable.typeof = "function" THEN <<requireable>>
    ELSE join([i \in 1..Len(requireable.items) |->
                  LeavesOf(requireable.items[i])])

\* The calls of the classifier a step has added.
NewlyClassified ==
    SubSeq(classified', Len(classified) + 1, Len(classified'))

C13_Step ==
    \A requireable \in RequireablesS :
        RequireSOf(requireable) /\ outcome'.error = "none" =>
            LET leaves == LeavesOf(requireable)
                handle == handles'[Len(handles')]
            IN  /\ Len(handles') = Len(handles) + 1
                /\ Len(handle.classes) = Len(leaves)
                /\ Len(handle.releasers) = Len(leaves)
                /\ Len(NewlyClassified) = Len(leaves)
                /\ \A i \in 1..Len(leaves) :
                       /\ NewlyClassified[i].styler = leaves[i].template.id
                       /\ NewlyClassified[i].parameters = leaves[i].parameters
                       /\ handle.classes[i] = encode(NewlyClassified[i].class)
                       /\ handle.releasers[i].fragment.class.chars
                              = handle.classes[i]
                       /\ handle.releasers[i].reference = <<calls', i>>
                       /\ handle.classes[i] \in DOMAIN requisitions'
                       /\ Includes(
                              heap'[requisitions'[handle.classes[i]]].references,
                              <<calls', i>>)

\* C13: the classes of the handle require returns have one entry for each
\* function at a leaf of the requireable, depth first and left to right,
\* repeated classes kept; classes[i] is the class of the i-th fragment, and
\* the i-th fragment is the one registered with the i-th reference.
C13_ClassesMirrorLeaves == [][C13_Step]_vars

\* The handle of [L1, [L2, L1]]: three classes, the first and the last equal.
C13_Witness ==
    \E h \in 1..Len(handles) :
        /\ handles[h].classes =
               <<<<"f", "0", "U+23A7", "a", "U+23AD">>,
                 <<"f", "1", "U+23A7", "a", "U+23AD">>,
                 <<"f", "0", "U+23A7", "a", "U+23AD">>>>
        /\ Len(heap[requisitions[handles[h].classes[1]]].references) = 2

\* The templates of an array of functions that are not among 'known', each
\* once, in the order of their first occurrence.
RECURSIVE FirstEncounters(_, _)
FirstEncounters(leaves, known) ==
    IF leaves = <<>> THEN <<>>
    ELSE IF Head(leaves).template.id \in known
    THEN FirstEncounters(Tail(leaves), known)
    ELSE <<Head(leaves).template>> \o FirstEncounters(
             Tail(leaves), known \cup {Head(leaves).template.id})

C16_Step ==
    /\ \A styler \in DOMAIN classifier.ids :
           /\ styler \in DOMAIN classifier'.ids
           /\ classifier'.ids[styler] = classifier.ids[styler]
    /\ \A s, t \in DOMAIN classifier'.ids :
           s # t => classifier'.ids[s] # classifier'.ids[t]
    /\ \A requireable \in RequireablesS :
           RequireSOf(requireable) =>
               LET new == FirstEncounters(LeavesOf(requireable),
                                          DOMAIN classifier.ids)
               IN  /\ DOMAIN classifier'.ids = DOMAIN classifier.ids
                          \cup {new[j].id : j \in 1..Len(new)}
                   /\ classifier'.counter = classifier.counter + Len(new)
                   /\ classifier.counter = Cardinality(DOMAIN classifier.ids)
                   /\ \A j \in 1..Len(new) :
                          classifier'.ids[new[j].id] =
                              <<"f">> \o Decimal(classifier.counter + j - 1)
                                  \o <<LeftBracket>> \o new[j].name
                                  \o <<RightBracket>>

\* C16: the k-th template function the classifier meets while requireables
\* are flattened gets the id "f" followed by k-1; an id, once given, stays
\* with its template and is given to no other, also when the require call
\* that met the template failed, and when the template's fragments have all
\* been released.
C16_IdsInOrderOfEncounter == [][C16_Step]_vars

\* A require that failed, the context disposed, gave the second template
\* its id.
C16_Witness ==
    /\ outcome.op = "require" /\ outcome.error # "none"
    /\ classifier.ids = (1 :> <<"f", "0", "U+23A7", "a", "U+23AD">>)
                        @@ (2 :> <<"f", "1", "U+23A7", "a", "U+23AD">>)
    /\ Len(handles) = 1

\* The fragments of the first template have all been released, and a later
\* require met the template again and another after it.
C16_WitnessReleased ==
    /\ outcome.op = "require" /\ outcome.error = "none"
    /\ 1 \in DOMAIN released
    /\ released[1] = 1
    /\ handles[1].classes = <<<<"f", "0", "U+23A7", "a", "U+23AD">>>>
    /\ handles[2].classes =
           <<<<"f", "0", "U+23A7", "a", "U+23AD">>,
             <<"f", "1", "U+23A7", "a", "U+23AD">>,
             <<"f", "0", "U+23A7", "a", "U+23AD">>>>

\* The full classes computed by the first n calls of the classifier.
FullsBefore(n) == {classified[j].full : j \in 1..(n - 1)}

\* C17: with interning on, classify returns the surrogate "f" followed by k,
\* where k is the number of different full classes computed before the first
\* computation of this one; a full class computed again gets the surrogate
\* it got before, also after its fragment has been released, and different
\* full classes get different surrogates.
C17_SurrogatesInOrderOfComputation ==
    classifier.intern =>
        /\ \A i \in 1..Len(classified) :
               IF classified[i].full \in FullsBefore(i)
               THEN \E j \in 1..(i - 1) :
                        /\ classified[j].full = classified[i].full
                        /\ classified[j].class = classified[i].class
               ELSE classified[i].class =
                        <<"f">> \o Decimal(Cardinality(FullsBefore(i)))
        /\ \A i, j \in 1..Len(classified) :
               classified[i].full # classified[j].full =>
                   classified[i].class # classified[j].class

\* The first template's class was interned as f0, its fragment released, and
\* the class it gets with a parameter was interned as f1, twice in one call.
C17_Witness ==
    /\ classifier.intern
    /\ classifier.counter = 1
    /\ Len(handles) = 2
    /\ handles[1].classes = <<<<"f", "0">>>>
    /\ released = (1 :> 1)
    /\ handles[2].classes = <<<<"f", "1">>, <<"f", "1">>>>
    /\ classified[2].full = classified[3].full
    /\ classified[2].full # classified[1].full

\* The class is made of letters, digits, underbars, hyphens and escapes of
\* six digits, and does not begin with a digit or a hyphen.
C18_EveryClassInTheGrammar ==
    \A h \in 1..Len(handles) :
        \A i \in 1..Len(handles[h].classes) :
            rx_class_test(handles[h].classes[i])

\* A character of U+00A0..U+FFFF.
HighCharacter(character) ==
    /\ character \notin Lower \cup Upper \cup Digit
    /\ CodePointAt[character] \in 160..65535

\* The characters of the string from the i-th on are letters, digits,
\* underbars, hyphens, characters of U+00A0..U+FFFF, and backslashes followed
\* by six uppercase hexadecimal digits.
RECURSIVE WideClassRest(_, _)
WideClassRest(string, i) ==
    IF i > Len(string) THEN TRUE
    ELSE IF string[i] = "\\"
    THEN /\ i + 6 <= Len(string)
         /\ \A j \in (i + 1)..(i + 6) : string[j] \in UpperHex
         /\ WideClassRest(string, i + 7)
    ELSE /\ \/ string[i] \in Lower \cup Upper \cup Digit \cup {"_", "-"}
            \/ HighCharacter(string[i])
         /\ WideClassRest(string, i + 1)

\* C18: every class of a handle returned by require, for fragments made by
\* rule and css with the context's classifier, begins with a letter, and
\* each later character is a letter, a digit, an underbar, a hyphen, a
\* character of U+00A0..U+FFFF, or part of a backslash followed by exactly
\* six uppercase hexadecimal digits.
C18_EveryClassInTheWideGrammar ==
    \A h \in 1..Len(handles) :
        \A i \in 1..Len(handles[h].classes) :
            /\ handles[h].classes[i] # <<>>
            /\ handles[h].classes[i][1] \in Lower \cup Upper \cup {"_"}
            /\ WideClassRest(handles[h].classes[i], 2)

\* A class with the classifier's brackets, dots and arrows, and an escaped
\* colon.
C18_Witness ==
    /\ ~classifier.intern
    /\ Len(handles) = 1
    /\ handles[1].classes =
           <<<<"f", "0", "U+23A7", "b", "U+23AD",
               "U+00B7", "c", "U+2192", "r",
               "U+00B7", "d", "U+2192", "\\", "0", "0", "0", "0", "3", "A">>,
             <<"f", "0", "U+23A7", "b", "U+23AD">>>>

----------------------------------------------------------------------------
(* Claims on the context of src/unnamed/part_002 with its classifiers. *)

\* C14: within one context two different stylers never get the same class,
\* whatever their labels and parameters, equal ones too, with the development
\* classifier and the production classifier, interning or not, and however
\* many stylers the classifier has met (the second and the eleventh get the
\* ids 1 and 10).
C14_DifferentStylersDifferentClasses ==
    LET made == {<<classified[i].styler, encode(classified[i].class)>> :
                    i \in 1..Len(classified)}
    IN  \A one, other \in made :
            one[1] # other[1] => one[2] # other[2]

\* Eleven stylers of one label were classified by the production classifier:
\* the second has the id 1, the eleventh the id 10.
C14_Witness ==
    /\ classifier.kind = "production" /\ ~classifier.intern
    /\ Len(handles) = 1
    /\ Len(handles[1].classes) = 11
    /\ handles[1].classes[2] = <<"f", "1", "_", "x">>
    /\ handles[1].classes[11] = <<"f", "1", "0", "_", "x">>
    /\ classified[2].styler = 2 /\ classified[11].styler = 11
    /\ classified[2].label = classified[11].label
    /\ classified[2].parameters = classified[11].parameters

\* The same with the development classifier.
C14_WitnessDevelopment ==
    /\ classifier.kind = "development"
    /\ Len(handles) = 1
    /\ Len(handles[1].classes) = 11
    /\ handles[1].classes[2] = <<"f", "1", "U+23A7", "x", "U+23AD">>
    /\ handles[1].classes[11] = <<"f", "1", "0", "U+23A7", "x", "U+23AD">>

\* The properties of an object, whatever the order of their creation.
Properties(object) == {object[i] : i \in 1..Len(object)}

\* C15: within one context classify returns the same class for the same
\* styler, label and parameter values on every call, whatever was classified,
\* required and released in between, and whatever the order in which the
\* keys of the parameters were created.
C15_SameArgumentsSameClass ==
    \A i \in 1..Len(classified) :
        \A j \in 1..(i - 1) :
            /\ classified[i].styler = classified[j].styler
            /\ classified[i].label = classified[j].label
            /\ Properties(classified[i].parameters)
                   = Properties(classified[j].parameters)
            => classified[i].class = classified[j].class

\* The development classifier classified a styler with {c, d}, the handle
\* was released, and after other stylers it classified the first with
\* {d, c}.
C15_Witness ==
    /\ classifier.kind = "development"
    /\ Len(classified) = 7
    /\ released = (1 :> 1)
    /\ classified[1].styler = classified[7].styler
    /\ classified[6].styler # classified[1].styler
    /\ keys(classified[1].parameters) = <<<<"c">>, <<"d">>>>
    /\ keys(classified[7].parameters) = <<<<"d">>, <<"c">>>>
    /\ classified[1].class = classified[7].class
    /\ requisitions # EmptyObject

\* The value is a function, or an object that is not null.
NotPrimitive(value) == value.type \in {"function", "object"}

\* Some parameter of the styler call is not primitive.
GivenNotPrimitive(parameters) ==
    \E property \in Properties(parameters) : NotPrimitive(property[2])

C19_Step ==
    \A requireable \in RequireablesP :
        RequirePOf(requireable) =>
            LET leaves == LeavesOf(requireable)
                given == \E i \in 1..Len(leaves) :
                             GivenNotPrimitive(leaves[i].parameters)
            IN  /\ classifier.kind = "development" /\ given =>
                       /\ outcome'.error = "Bad parameter"
                       /\ handles' = handles
                       /\ requisitions' = requisitions
                       /\ heap' = heap
                       /\ inserted' = inserted
                       /\ removed' = removed
                       /\ \A i \in 1..Len(classified') :
                              ~GivenNotPrimitive(classified'[i].parameters)
                /\ classifier.kind = "production" /\ given =>
                       /\ outcome'.error = "none"
                       /\ Len(handles') = Len(handles) + 1
                       /\ Len(handles'[Len(handles')].classes) = Len(leaves)
                       /\ \A i \in 1..Len(leaves) :
                              handles'[Len(handles')].classes[i]
                                  \in DOMAIN requisitions'

C19_WitnessProduction ==
    /\ classifier.kind = "production" /\ ~classifier.intern
    /\ Len(classified) = 1
    /\ classified[1].parameters = << <<<<"c">>, Function>> >>
    /\ Len(inserted) = 1
    /\ inserted[1].class.chars = <<"f", "0", "_", "x">>

\* The keys of the replacements of two classifications on which the
\* parameters differ as strings.
DifferingReplacements(i, j) ==
    {key \in Properties(keys(classified[i].replacements))
             \cup Properties(keys(classified[j].replacements)) :
        get(classified[i].parameters, key).chars
            # get(classified[j].parameters, key).chars}

\* C20: for one styler and label, two parameter records that differ in the
\* value of a used parameter, as strings, get different classes after
\* encoding, also when the values hold the classifier's separators, or a
\* punctuation character and its lookalike.
C20_DifferentValuesDifferentClasses ==
    \A i, j \in 1..Len(classified) :
        /\ classified[i].styler = classified[j].styler
        /\ classified[i].label = classified[j].label
        /\ DifferingReplacements(i, j) # {}
        => encode(classified[i].class) # encode(classified[j].class)

----------------------------------------------------------------------------
(* The templates and what they are filled with. *)

\* The placeholders of a template.
PlaceholdersOf(template) ==
    LET Named_(piece) == piece.placeholder
    IN  SelectSeq(template, Named_)

\* The value resolved for each placeholder of a styler of 2022: what the
\* function of substitutions returns, or the property of the substitutions,
\* called when it is a function.
ResolvedFor(styler) ==
    LET placeholders == PlaceholdersOf(styler.template)
        source == styler.substitutions
    IN  [i \in 1..Len(placeholders) |->
            <<placeholders[i].chars,
              IF source = undefined THEN undefined
              ELSE IF typeof(source) = "function"
              THEN get(source.returns, placeholders[i].chars)
              ELSE LET value == get(source.properties, placeholders[i].chars)
                   IN  IF typeof(value) = "function" THEN value.returns
                       ELSE value>>]

\* Some placeholder of the template has no string and no number among the
\* values.
Unresolved(template, the_values) ==
    \E i \in 1..Len(template) :
        /\ template[i].placeholder
        /\ typeof(get(the_values, template[i].chars))
               \notin {"string", "number"}

\* The template with every placeholder replaced by its value.
Substituted(template, the_values) ==
    join([i \in 1..Len(template) |->
        IF template[i].placeholder
        THEN get(the_values, template[i].chars).chars
        ELSE template[i].chars])

\* The statements a styler of the kind makes of the declarations or
\* statements it has rendered.
Finished(kind, the_class, rendered) ==
    IF kind = "rule_styler"
    THEN <<".">> \o the_class \o <<" ", "{">> \o rendered \o <<"}">>
    ELSE replace_empty_placeholder(rendered, the_class)

\* C21: a styler whose template has a placeholder whose value is no string
\* and no number throws, returns no fragment and leaves the classifier (or
\* the identifier) as it was, not called; a styler whose placeholders all
\* have strings or numbers does not throw for a value, and its statements
\* are the template with every placeholder replaced by its value.
C21_Step ==
    outcome'.op = "call" =>
        LET input == outcome'.input
            rendering == input \in RequireablesD
            placing == /\ input \in Stylers_2022_02_28
                       /\ input.styler # "mix_styler"
            the_values == IF rendering
                          THEN available(input.data, input.parameters)
                          ELSE ResolvedFor(input)
        IN  rendering \/ placing =>
                IF Unresolved(input.template, the_values)
                THEN /\ outcome'.error
                            = IF rendering THEN "Missing value"
                              ELSE IF input.substitutions = undefined
                              THEN "TypeError" ELSE "Unreplaceable"
                     /\ outcome'.fragments = <<>>
                     /\ classifier' = classifier
                     /\ classified' = classified
                ELSE /\ outcome'.error
                            \notin {"Missing value", "TypeError",
                                    "Unreplaceable"}
                     /\ outcome'.error = "none" =>
                            /\ Len(outcome'.fragments) = 1
                            /\ LET fragment == outcome'.fragments[1]
                                   made == IF rendering
                                           THEN fragment.statements.chars
                                           ELSE fragment.rules.chars
                               IN  made = Finished(
                                       input.styler, fragment.class.chars,
                                       Substituted(input.template,
                                                   the_values))
C21_UnresolvedPlaceholderThrows == [][C21_Step]_vars

\* A styler was called with a boolean for a placeholder after another
\* styler had returned a fragment; a styler given a name was called with
\* null for a placeholder.
C21_Witness ==
    /\ outcome.op = "call"
    /\ outcome.input \in RequireablesD
    /\ outcome.error = "Missing value"
    /\ get(available(outcome.input.data, outcome.input.parameters), KeyC)
           = True
    /\ Len(classified) >= 1
C21_WitnessPlace ==
    /\ outcome.op = "call"
    /\ outcome.input \in Stylers_2022_02_28
    /\ outcome.input.styler = "rule_styler"
    /\ outcome.error = "Unreplaceable"
    /\ outcome.input.substitutions # undefined
    /\ ResolvedFor(outcome.input) = <<Property(KeyX, Null)>>
    /\ Len(classified) >= 1

\* The data of the styler are an object, and the template has a
\* placeholder the data have no key for.
DataLack(requireable) ==
    /\ typeof(requireable.data) = "object"
    /\ truthy(requireable.data)
    /\ \E i \in 1..Len(requireable.template) :
           /\ requireable.template[i].placeholder
           /\ ~Includes(keys(requireable.data.properties),
                        requireable.template[i].chars)

\* C22, as the specification has it: a styler whose data are an object
\* that lacks the key of a placeholder, and whose parameters have a string
\* or a number under every key the data lack, returns its fragment: the
\* placeholder gets the value of the parameters.
C22_FallsBackToParameters ==
    /\ outcome.op = "call"
    /\ outcome.input \in RequireablesD
    /\ DataLack(outcome.input)
    /\ ~Unresolved(outcome.input.template,
                   outcome.input.data.properties
                       \o outcome.input.parameters)
    => outcome.error = "none"

\* C22, amended: render reads every placeholder from one object.  The
\* parameters stand in for data that are not given (undefined, null): then
\* the placeholders are replaced by the values of the parameters.  Data
\* that are an object are read alone: when they lack the key of a
\* placeholder the styler throws, whatever the parameters hold under that
\* key, and when they have every key the values are theirs, not those of
\* the parameters.
C22_ParametersOnlyWithoutData ==
    outcome.op = "call" /\ outcome.input \in RequireablesD =>
        LET input == outcome.input
            rendered(the_values) ==
                /\ outcome.error = "none"
                /\ outcome.fragments[1].statements.chars
                       = Finished(input.styler,
                                  outcome.fragments[1].class.chars,
                                  Substituted(input.template, the_values))
        IN  /\ DataLack(input) =>
                /\ outcome.error = "Missing value"
                /\ outcome.fragments = <<>>
            /\ /\ typeof(input.data) = "object"
               /\ truthy(input.data)
               /\ ~Unresolved(input.template, input.data.properties)
               => rendered(input.data.properties)
            /\ /\ ~truthy(input.data)
               /\ ~Unresolved(input.template, input.parameters)
               => rendered(input.parameters)

\* A styler was called whose data have c and lack d, and whose parameters
\* have the string "t" under d; a styler was called whose data and
\* parameters have different strings under c.
C22_Witness ==
    /\ outcome.op = "call"
    /\ outcome.input \in RequireablesD
    /\ DataLack(outcome.input)
    /\ get(outcome.input.data.properties, KeyD) = undefined
    /\ get(outcome.input.parameters, KeyD) = Str(<<"t">>)
    /\ outcome.error = "Missing value"
C22_WitnessData ==
    /\ outcome.op = "call"
    /\ outcome.input \in RequireablesD
    /\ typeof(outcome.input.data) = "object"
    /\ truthy(outcome.input.data)
    /\ get(outcome.input.data.properties, KeyC) = Str(<<"s">>)
    /\ get(outcome.input.parameters, KeyC) = Str(<<"r">>)
    /\ outcome.error = "none"
C22_WitnessNull ==
    /\ outcome.op = "call"
    /\ outcome.input \in RequireablesD
    /\ outcome.input.data = Null
    /\ outcome.error = "none"

\* The stylers of the three snapshots that are made by rule or fragment
\* and given substitutions.
Substituting ==
    {styler \in Stylers_2022_02_28 \cup Stylers_2022_02_18
                    \cup Stylers_2021_12_18 :
        styler.styler # "mix_styler" /\ styler.substitutions # undefined}

\* A value, called for as long as it is a function.
RECURSIVE Unwrapped(_)
Unwrapped(value) ==
    IF typeof(value) = "function" THEN Unwrapped(value.returns) ELSE value

\* The value of each placeholder of a styler, called until it is no
\* function.
UnwrappedFor(styler) ==
    LET once == ResolvedFor(styler)
    IN  [i \in 1..Len(once) |-> <<once[i][1], Unwrapped(once[i][2])>>]

\* The rules a styler of a snapshot makes of what it has rendered: the
\* fragment of 2021 has no empty placeholder.
FinishedIn(styler, the_class, rendered) ==
    IF styler.snapshot = "2021-12-18" /\ styler.styler = "fragment_styler"
    THEN rendered
    ELSE Finished(styler.styler, the_class, rendered)

\* The styler has returned one fragment, whose rules are the template
\* filled with the values.
Filled(the_values) ==
    /\ outcome.error = "none"
    /\ Len(outcome.fragments) = 1
    /\ outcome.fragments[1].rules.chars
           = FinishedIn(outcome.input, outcome.fragments[1].class.chars,
                        Substituted(outcome.input.template, the_values))

\* C23, as the specification has it: when the value of every placeholder,
\* called until it is no function, is a string or a number, the styler
\* returns its fragment, filled with these strings and numbers.
C23_CalledUntilNotCallable ==
    /\ outcome.op = "call"
    /\ outcome.input \in Substituting
    /\ ~Unresolved(outcome.input.template, UnwrappedFor(outcome.input))
    => Filled(UnwrappedFor(outcome.input))

\* C23, amended: a property of an object of substitutions that is a
\* function is called once, without arguments, and what it returns is the
\* replacement; what a function of substitutions returns for a placeholder
\* is the replacement as it is, not called.  So the styler throws when the
\* property is a function that returns a function, and when the function
\* of substitutions returns a function; it returns the fragment filled
\* with the values when each of them, called once at most, is a string or
\* a number.
C23_CalledOnce ==
    outcome.op = "call" /\ outcome.input \in Substituting =>
        LET input == outcome.input
            source == input.substitutions
            placeholders == PlaceholdersOf(input.template)
            again ==
                \E i \in 1..Len(placeholders) :
                    LET value == IF typeof(source) = "function"
                                 THEN get(source.returns,
                                          placeholders[i].chars)
                                 ELSE get(source.properties,
                                          placeholders[i].chars)
                    IN  /\ typeof(value) = "function"
                        /\ \/ typeof(source) = "function"
                           \/ typeof(value.returns) = "function"
        IN  /\ again =>
                outcome.error = "Unreplaceable" /\ outcome.fragments = <<>>
            /\ ~Unresolved(input.template, ResolvedFor(input)) =>
                Filled(ResolvedFor(input))

\* A rule of src/fstyle.js (2021-12-18) was called whose substitution is a
\* function that returns a function that returns a string; a fragment of
\* src/unnamed/part_001 was called whose substitutions are a function that
\* returns a function; a fragment of src/unnamed/part_002 was called whose
\* substitution is a function that returns a number.
C23_Witness ==
    /\ outcome.op = "call"
    /\ outcome.input \in Substituting
    /\ outcome.input.snapshot = "2021-12-18"
    /\ outcome.input.substitutions
           = Object(<<Property(KeyX,
                               Returning(Returning(Str(<<"r">>))))>>)
    /\ outcome.error = "Unreplaceable"
C23_WitnessFunction ==
    /\ outcome.op = "call"
    /\ outcome.input \in Substituting
    /\ outcome.input.snapshot = "2022-02-18"
    /\ outcome.input.substitutions
           = Returning(<<Property(KeyX, Returning(Str(<<"r">>)))>>)
    /\ outcome.error = "Unreplaceable"
C23_WitnessOnce ==
    /\ outcome.op = "call"
    /\ outcome.input \in Substituting
    /\ outcome.input.snapshot = "2022-02-28"
    /\ outcome.input.substitutions
           = Object(<<Property(KeyX,
                               Returning(Number(<<"1", ".", "4">>)))>>)
    /\ outcome.error = "none"
    /\ outcome.fragments[1].rules.chars
           = <<"b", "_", "1", "\\", "0", "0", "0", "0", "2", "E", "4", ":",
               "1", ".", "4">>

\* The number written by hexadecimal digits.
RECURSIVE HexadecimalValue(_)
HexadecimalValue(digits) ==
    IF digits = <<>> THEN 0
    ELSE 16 * HexadecimalValue(SubSeq(digits, 1, Len(digits) - 1))
         + (CHOOSE n \in 0..15 :
                <<"0", "1", "2", "3", "4", "5", "6", "7", "8", "9", "A", "B",
                  "C", "D", "E", "F">>[n + 1] = digits[Len(digits)])

\* The glyph is one that encode leaves as it is: a letter, a digit, the
\* underbar, the hyphen, and in 2023 a character of U+00A0..U+FFFF.
Legal(glyph, year) ==
    \/ glyph \in Lower \cup Upper \cup Digit \cup {"_", "-"}
    \/ year = 2023 /\ charCodeAt(glyph) \in 160..65535

\* The output is the string glyph by glyph: a legal glyph as it is, any
\* other as a backslash and the six digits of its code point.
RECURSIVE GlyphByGlyph(_, _, _)
GlyphByGlyph(string, output, year) ==
    IF string = <<>> THEN output = <<>>
    ELSE IF Legal(Head(string), year)
    THEN /\ output # <<>>
         /\ Head(output) = Head(string)
         /\ GlyphByGlyph(Tail(string), Tail(output), year)
    ELSE /\ Len(output) >= 7
         /\ output[1] = "\\"
         /\ \A i \in 2..7 : output[i] \in UpperHex
         /\ HexadecimalValue(SubSeq(output, 2, 7)) = charCodeAt(Head(string))
         /\ GlyphByGlyph(Tail(string), SubSeq(output, 8, Len(output)), year)

\* C24: encode writes its string code point by code point: a letter, a
\* digit, an underbar or a hyphen of ASCII (and, in 2023, a character of
\* U+00A0..U+FFFF) as it is, any other code point up to U+10FFFF as a
\* backslash and exactly six upper case hexadecimal digits whose value is
\* the code point.
C24_GlyphByGlyph ==
    outcome.op = "encode" =>
        /\ GlyphByGlyph(outcome.string, outcome.encoded, 2023)
        /\ GlyphByGlyph(outcome.string, outcome.encoded_2022, 2022)

\* The string of U+00A0 and U+10FFFF was encoded: as it is and an escape
\* in 2023, as two escapes in 2022.
C24_Witness ==
    /\ outcome.op = "encode"
    /\ outcome.string = <<"U+00A0", "U+10FFFF">>
    /\ outcome.encoded = <<"U+00A0", "\\", "1", "0", "F", "F", "F", "F">>
    /\ outcome.encoded_2022
           = <<"\\", "0", "0", "0", "0", "A", "0",
               "\\", "1", "0", "F", "F", "F", "F">>

\* What encode makes of every string.
Encodings ==
    {[string |-> string, encoded |-> encode(string)] : string \in Strings}

\* C25: no other string is encoded as the string just encoded is.
C25_Injective ==
    outcome.op = "encode" =>
        \A other \in Encodings :
            other.encoded = outcome.encoded => other.string = outcome.string

\* The tab followed by the digit 0 was encoded, whose escape and digit
\* have the hexadecimal digits of the escape of U+0090.
C25_Witness ==
    /\ outcome.op = "encode"
    /\ outcome.string = <<"U+0009", "0">>
    /\ outcome.encoded = <<"\\", "0", "0", "0", "0", "0", "9", "0">>
    /\ \E other \in Encodings :
           /\ other.string = <<"U+0090">>
           /\ other.encoded = <<"\\", "0", "0", "0", "0", "9", "0">>

\* The statements with the class in the place of every empty placeholder,
\* which is the two characters 'open' and 'close'.
WithClass(statements, open, close, the_class) ==
    LET at(i) == /\ i \in 1..(Len(statements) - 1)
                 /\ statements[i] = open
                 /\ statements[i + 1] = close
    IN  join([i \in 1..Len(statements) |->
            IF at(i) THEN the_class
            ELSE IF at(i - 1) THEN <<>>
            ELSE <<statements[i]>>])

\* C26: the statements of a fragment made by fragment or css are the
\* rendered statements with the fragment's class in the place of every
\* empty placeholder, and nothing else changed; the statements of a
\* fragment made by rule are "." + class + " {" + declarations + "}", the
\* class being that of the fragment.
C26_ClassInStatements ==
    /\ outcome.op = "call"
    /\ outcome.error = "none"
    /\ outcome.input \in RequireablesD \cup RequireablesL
    => LET input == outcome.input
           data == input \in RequireablesD
           fragment == outcome.fragments[1]
           rendered ==
               IF data
               THEN Substituted(input.template,
                                available(input.data, input.parameters))
               ELSE IF input.styler = "rule_styler" THEN input.declarations
               ELSE input.statements
       IN  /\ Len(outcome.fragments) = 1
           /\ fragment.statements.chars
                  = IF input.styler = "rule_styler"
                    THEN <<".">> \o fragment.class.chars \o <<" ", "{">>
                             \o rendered \o <<"}">>
                    ELSE IF data
                    THEN WithClass(rendered, "<", ">", fragment.class.chars)
                    ELSE WithClass(rendered, "[", "]", fragment.class.chars)
           /\ input.styler = "fragment_styler" =>
                  \A i \in 1..(Len(fragment.statements.chars) - 1) :
                      ~/\ fragment.statements.chars[i]
                              = (IF data THEN "<" ELSE "[")
                        /\ fragment.statements.chars[i + 1]
                              = (IF data THEN ">" ELSE "]")

\* A fragment was made whose rendered statements hold the empty
\* placeholder three times, once brought by a value; a fragment of
\* src/fstyle.js was made whose statements hold it between brackets; a
\* rule was made by the interning classifier.
C26_Witness ==
    /\ outcome.op = "call"
    /\ outcome.error = "none"
    /\ outcome.input \in RequireablesD
    /\ outcome.input.styler = "fragment_styler"
    /\ Substituted(outcome.input.template,
                   available(outcome.input.data, outcome.input.parameters))
           = <<"<", ">", "{", "<", ">", "}", "<", "<", ">", ">">>
    /\ classifier.kind = "production"
    /\ outcome.fragments[1].class.chars
           = <<"f", "0", "_", "k", "_", "c", "_", "\\", "0", "0", "0", "0",
               "3", "C", "\\", "0", "0", "0", "0", "3", "E">>
C26_WitnessBrackets ==
    /\ outcome.op = "call"
    /\ outcome.error = "none"
    /\ outcome.input \in RequireablesL
    /\ outcome.input.styler = "fragment_styler"
    /\ outcome.input.statements = <<"[", "[", "]", "]", "r", "[", "]">>
    /\ outcome.fragments[1].class.chars = <<"f", "0">>
    /\ outcome.fragments[1].statements.chars
           = <<"[", "f", "0", "]", "r", "f", "0">>
C26_WitnessRule ==
    /\ outcome.op = "call"
    /\ outcome.error = "none"
    /\ outcome.input \in RequireablesD
    /\ outcome.input.styler = "rule_styler"
    /\ classifier.intern
    /\ outcome.fragments[1].statements.chars
           = <<".", "f", "0", " ", "{", "c", ":", "s", "}">>

\* C27: two fragments made by place for one name and one template from
\* different replacements have different classes.
C27_DifferentReplacementsDifferentClasses ==
    classifier.kind \in {"identify", "2022-02-18"} =>
        \A i, j \in 1..Len(classified) :
            /\ classified[i].styler.name = classified[j].styler.name
            /\ classified[i].styler.template = classified[j].styler.template
            /\ classified[i].styler.styler = classified[j].styler.styler
            /\ classified[i].replacements # classified[j].replacements
            => classified[i].class # classified[j].class

\* C28: with the identifier of identify(), the class of a fragment whose
\* name is a function differs from the class of every fragment made with
\* another name, a function or a string.
C28_FunctionNameUniqueClass ==
    classifier.kind = "identify" =>
        \A i, j \in 1..Len(classified) :
            /\ typeof(classified[i].styler.name) = "function"
            /\ classified[i].styler.name # classified[j].styler.name
            => classified[i].class # classified[j].class

\* The fragment a styler made by rule has returned: its class is the one
\* recorded for the styler.
ReturnedBy(styler) ==
    LET the_class ==
            classified[CHOOSE i \in 1..Len(classified) :
                           classified[i].styler = styler].class
    IN  FragmentV(Str(the_class),
                  Str(FinishedIn(styler, the_class,
                                 Substituted(styler.template,
                                             ResolvedFor(styler)))))

\* The fragments of the stylers of a mix, those of a styler before those
\* of the stylers that follow it in the array.
RECURSIVE InArrayOrder(_)
InArrayOrder(styler) ==
    IF styler.styler # "mix_styler" THEN <<ReturnedBy(styler)>>
    ELSE IF styler.items = <<>> THEN <<>>
    ELSE InArrayOrder(Head(styler.items))
             \o InArrayOrder([styler EXCEPT !.items = Tail(@)])

Reversed(array) == [i \in 1..Len(array) |-> array[Len(array) + 1 - i]]

\* A styler made by mix has returned.
Mixing ==
    /\ outcome.op = "call"
    /\ outcome.error = "none"
    /\ outcome.input \in Stylers_2022_02_28 \cup Stylers_2022_02_18
                             \cup Stylers_2021_12_18
    /\ outcome.input.styler = "mix_styler"

\* C29, as it was stated: in each of the three snapshots the styler made by
\* mix returns the fragments of its stylers in the order of the array.
C29_MixInArrayOrder ==
    Mixing => outcome.fragments = InArrayOrder(outcome.input)

\* C29, amended: the styler made by mix returns exactly the fragments its
\* stylers return, each as often as it was returned.  In
\* src/unnamed/part_002 those of a styler come before those of the stylers
\* that follow it in the array; in src/fstyle.js (2021-12-18) and
\* src/unnamed/part_001 they come after them, in a mix within a mix as
\* well.  none() returns the empty array.
C29_MixInOrderOrReversed ==
    Mixing =>
        /\ outcome.fragments
               = IF outcome.input.snapshot = "2022-02-28"
                 THEN InArrayOrder(outcome.input)
                 ELSE Reversed(InArrayOrder(outcome.input))
        /\ outcome.input = none(outcome.input.snapshot) =>
               outcome.fragments = <<>>

\* The mix of five rules, one of them twice, was called in
\* src/unnamed/part_001; in src/unnamed/part_002; none() was called.
C29_Witness ==
    /\ Mixing
    /\ outcome.input = Mixed("2022-02-18")
    /\ [i \in 1..Len(outcome.fragments) |->
           outcome.fragments[i].class.chars]
           = <<<<"t", "_", "1", "_", "2">>,
               <<"u", "0", "_", "f", "o", "o">>,
               <<"s", "_", "\\", "0", "0", "0", "0", "2", "0">>,
               <<"f", "o", "o">>,
               <<"t", "_", "1", "_", "2">> >>
C29_WitnessInOrder ==
    /\ Mixing
    /\ outcome.input = Mixed("2022-02-28")
    /\ [i \in 1..Len(outcome.fragments) |->
           outcome.fragments[i].class.chars]
           = <<<<"t", "_", "1", "_", "2">>,
               <<"u", "1", "_", "f", "o", "o">>,
               <<"s", "_", "\\", "0", "0", "0", "0", "2", "0">>,
               <<"u", "0", "_", "f", "o", "o">>,
               <<"t", "_", "1", "_", "2">> >>
C29_WitnessNone ==
    /\ Mixing
    /\ outcome.input = none("2021-12-18")
    /\ outcome.fragments = <<>>
    /\ Len(classified) >= 1

\* The number of fragments of the class registered by the first h require
\* calls that returned, those whose release has been called not counted.
RECURSIVE Registrations(_, _)
Registrations(class, h) ==
    IF h = 0 THEN 0
    ELSE Registrations(class, h - 1)
         + (IF h \in DOMAIN released THEN 0
            ELSE Cardinality({i \in 1..Len(handles[h].classes) :
                                  handles[h].classes[i] = class}))

\* C30: while the context is active, every requisition of the table has a
\* reference, and as many references as fragments of its class were
\* registered by the require calls whose release has not been called; a
\* step that takes the last reference of a requisition of the table takes
\* the requisition from the table, and no other step takes one from it.
C30_Step ==
    /\ Active' =>
           \A class \in DOMAIN requisitions' :
               LET references == heap'[requisitions'[class]].references
               IN  /\ Len(references) >= 1
                   /\ Len(references) = Registrations(class, Len(handles))'
    /\ Active =>
           \A class \in DOMAIN requisitions :
               class \notin DOMAIN requisitions'
                   <=> heap'[requisitions[class]].references = <<>>
C30_ReferencedWhileInTable == [][C30_Step]_vars

\* A release took the last reference of one requisition and one of the
\* three references of another, which stays in the table with the two
\* references of the require call that is not released.
C30_Witness ==
    /\ Active
    /\ outcome.op = "release"
    /\ DOMAIN requisitions = {A}
    /\ Len(heap[requisitions[A]].references) = 2
    /\ Registrations(A, Len(handles)) = 2
    /\ \E k \in 1..Len(heap) : heap[k].references = <<>>
    /\ Cardinality(DOMAIN released) = 1
    /\ \E h \in DOMAIN released : handles[h].classes = <<A, B>>
    /\ \E h \in Unreleased : handles[h].classes = <<A, A>>

\* The same in the validating context of src/unnamed/part_002, where a
\* require call that throws has no release: the references it has made
\* stay, and are those of no handle.
C30_StepV ==
    /\ \A class \in DOMAIN requisitions' :
           LET references == heap'[requisitions'[class]].references
               held == {i \in 1..Len(references) :
                           \E h \in 1..Len(handles') :
                               references[i] \in ReferencesOf(h)'}
           IN  /\ Len(references) >= 1
               /\ Cardinality(held) = Registrations(class, Len(handles))'
               /\ \A i \in 1..Len(references), h \in DOMAIN released' :
                      references[i] \notin ReferencesOf(h)'
    /\ \A class \in DOMAIN requisitions :
           class \notin DOMAIN requisitions'
               <=> heap'[requisitions[class]].references = <<>>
C30_ReferencedWhileInTableV == [][C30_StepV]_vars

----------------------------------------------------------------------------
(* Claims on what one release and one require change. *)

\* The number of references of the class: those of its requisition in the
\* table, none when the table has no requisition of the class.
ReferenceCount(class) ==
    IF class \in DOMAIN requisitions
    THEN Len(heap[requisitions[class]].references)
    ELSE 0

\* How many times the class occurs in the handle's classes.
Occurrences(h, class) ==
    Cardinality({i \in 1..Len(handles[h].classes) :
                     handles[h].classes[i] = class})

\* The array without the elements of the set, the others in their order.
RECURSIVE Without(_, _)
Without(array, elements) ==
    IF array = <<>> THEN <<>>
    ELSE IF Head(array) \in elements THEN Without(Tail(array), elements)
    ELSE <<Head(array)>> \o Without(Tail(array), elements)

C31_Step ==
    \A h \in Unreleased :
        ReleaseOf(h) =>
            /\ \A r \in 1..Len(heap) :
                   /\ heap'[r].references
                          = Without(heap[r].references, ReferencesOf(h))
                   /\ heap'[r].statements = heap[r].statements
            /\ \A class \in {A, B} :
                   /\ ReferenceCount(class)'
                          = ReferenceCount(class) - Occurrences(h, class)
                   /\ ~Holds(h, class) =>
                          /\ Installed(class)' <=> Installed(class)
                          /\ class \in DOMAIN requisitions
                                 <=> class \in DOMAIN requisitions'
                          /\ class \in DOMAIN requisitions =>
                                 requisitions'[class] = requisitions[class]

\* C31: the first release of a handle takes from the requisitions exactly
\* the references made by the require call that returned the handle: the
\* number of references of each class drops by the number of times the
\* class occurs in the handle's classes, and a class that does not occur in
\* them keeps its references, its requisition with its statements, and is
\* installed after the release iff it was before.
C31_FirstReleaseTakesOwnReferences == [][C31_Step]_vars

\* The first release of a handle of one class twice, while another handle
\* holds that class and a second class: the class keeps one reference, the
\* other class is untouched.
C31_Witness ==
    /\ outcome.op = "release"
    /\ Len(handles) = 2
    /\ DOMAIN released = {2}
    /\ handles[1].classes = <<A, B>>
    /\ handles[2].classes = <<A, A>>
    /\ ReferenceCount(A) = 1
    /\ ReferenceCount(B) = 1
    /\ Installed(A) /\ Installed(B)
    /\ removed = <<0, 0>>

\* The fragments are k > 1 fragments of one class.
OneClassRepeated(fragments) ==
    /\ Len(fragments) > 1
    /\ \A i \in 1..Len(fragments) : fragments[i].class = fragments[1].class

C32_Step ==
    /\ \A fragments \in Requireables :
           (Active /\ OneClassRepeated(fragments) /\ RequireOf(fragments)) =>
               LET class == fragments[1].class.chars
                   k == Len(fragments)
               IN  /\ outcome'.error = "none"
                   /\ class \notin DOMAIN requisitions =>
                          inserted' = Append(inserted, fragments[1])
                   /\ class \in DOMAIN requisitions => inserted' = inserted
                   /\ handles'[Len(handles')].classes
                          = [i \in 1..k |-> class]
                   /\ ReferenceCount(class)' = ReferenceCount(class) + k
                   /\ LET releasers == handles'[Len(handles')].releasers
                           made == {releasers[i].reference :
                                        i \in 1..Len(releasers)}
                       IN  /\ Cardinality(made) = k
                           /\ made \subseteq Elements(
                                  heap'[requisitions'[class]].references)
    /\ \A h \in Unreleased :
           LET class == handles[h].classes[1]
           IN  (/\ Active
                /\ Len(handles[h].classes) > 1
                /\ \A i \in 1..Len(handles[h].classes) :
                       handles[h].classes[i] = class
                /\ \A g \in Unreleased \ {h} : ~Holds(g, class)
                /\ ReleaseOf(h)) =>
                   LET requisition == requisitions[class]
                   IN  /\ class \notin DOMAIN requisitions'
                       /\ heap'[requisition].references = <<>>
                       /\ \A n \in 1..Len(removed) :
                              removed'[n] = removed[n] + (
                                  IF n = heap[requisition].remove
                                  THEN 1 ELSE 0)

\* C32: on an active context, a require of a requireable that flattens to
\* one class k > 1 times calls the inserter once (for the first fragment, and
\* not at all when the table already has the class), returns a handle whose
\* classes are the class k times, and adds k references, one per fragment, to
\* the requisition of the class; the first release of that handle, when no
\* other unreleased handle holds the class, calls the requisition's remover
\* exactly once, calls no other remover and takes the class from the table.
C32_RepeatedClassOneInsertion == [][C32_Step]_vars

\* The only require call so far was of one class twice, and its handle has
\* been released: one insertion, one removal, no reference, an empty table.
C32_Witness ==
    /\ Active
    /\ outcome.op = "release"
    /\ calls = 1
    /\ handles[1].classes = <<A, A>>
    /\ Len(handles[1].releasers) = 2
    /\ inserted = <<A1>>
    /\ removed = <<1>>
    /\ heap[1].references = <<>>
    /\ DOMAIN requisitions = {}

\* The state the release of C32_Witness was made in: one insertion and two
\* references for the two fragments.
C32_WitnessRequired ==
    /\ Active
    /\ outcome.op = "require"
    /\ calls = 1
    /\ handles[1].classes = <<A, A>>
    /\ inserted = <<A1>>
    /\ removed = <<0>>
    /\ Len(heap[requisitions[A]].references) = 2

C33_Step ==
    /\ RequireSOf(Array(<<>>)) =>
           /\ outcome'.error = "none"
           /\ inserted' = inserted
           /\ removed' = removed
           /\ requisitions' = requisitions
           /\ heap' = heap
           /\ classified' = classified
           /\ handles' = Append(handles,
                                [classes |-> <<>>, releasers |-> <<>>])
    /\ \A h \in 1..Len(handles) :
           (handles[h].classes = <<>> /\ ReleaseOf(h)) =>
               /\ inserted' = inserted
               /\ removed' = removed
               /\ requisitions' = requisitions
               /\ heap' = heap

C33_WitnessDisposed ==
    /\ outcome.op = "require"
    /\ outcome.error = "none"
    /\ ~Active
    /\ Len(handles) >= 1
    /\ handles[Len(handles)].classes = <<>>

----------------------------------------------------------------------------
(* Claims on a require whose requireable cannot be flattened. *)

\* The leaves of the requireable that throw when they are called with the
\* context's classifier: a placeholder without a value, a parameter the
\* classifier refuses, or no classifier at all.
Throwers(requireable) ==
    LET leaves == LeavesOf(requireable)
    IN  {i \in 1..Len(leaves) :
             call_requireable(Flattening, leaves[i]).error # "none"}

C34_Step ==
    \A requireable \in RequireablesP :
        (Throwers(requireable) # {} /\ RequirePOf(requireable)) =>
            /\ outcome'.op = "require"
            /\ outcome'.error # "none"
            /\ inserted' = inserted
            /\ removed' = removed
            /\ heap' = heap
            /\ requisitions' = requisitions
            /\ handles' = handles

\* C34: in the context of src/unnamed/part_002 lines 286-347, a require whose
\* requireable has a leaf that throws (a placeholder without a value, a
\* parameter value the classifier refuses) throws, having called no inserter
\* and no remover, made no requisition, added no reference and returned no
\* handle, also for the leaves that come before the one that throws.
C34_FailedFlatteningRegistersNothing == [][C34_Step]_vars

\* A require threw for a placeholder without a value, in an array whose
\* first leaf is a rule that can be rendered: that rule was classified, and
\* nothing of it was inserted.
C34_Witness ==
    /\ outcome.op = "require"
    /\ outcome.error = "Missing value"
    /\ calls = 1
    /\ Len(classified) = 1
    /\ inserted = <<>>
    /\ heap = <<>>
    /\ handles = <<>>

\* A require threw for a parameter value the development classifier
\* refuses, after another require had been registered.
C34_WitnessParameter ==
    /\ outcome.op = "require"
    /\ outcome.error \notin {"none", "Missing value"}
    /\ Active
    /\ calls = 2
    /\ Len(handles) = 1
    /\ Len(inserted) = Len(handles[1].classes)
    /\ Len(inserted) >= 1

----------------------------------------------------------------------------
(* Claims on removers that call require. *)

\* The class whose remover made the require call of the step: the first
\* class of the released handle whose remover the release has run.
Requiring(h) ==
    LET releasers == handles[h].releasers
        ran == {i \in 1..Len(releasers) :
                    removed'[heap[releasers[i].requisition].remove]
                        > removed[heap[releasers[i].requisition].remove]}
        first == CHOOSE i \in ran : \A j \in ran : i <= j
    IN  handles[h].classes[first]

C35_Step ==
    \A h \in 1..Len(handles), fragments \in RequireablesR :
        ReleaseRequiringOf(h, fragments) =>
            LET class == Requiring(h)
                new == handles'[Len(handles')]
            IN  (\E i \in 1..Len(fragments) :
                     fragments[i].class.chars = class) =>
                    /\ \E k \in 1..Len(inserted') :
                           /\ inserted'[k].class.chars = class
                           /\ removed'[k] = 0
                    /\ class \in DOMAIN requisitions'
                    /\ \E i \in 1..Len(new.releasers) :
                           /\ new.classes[i] = class
                           /\ new.releasers[i].reference \in Elements(
                                  heap'[requisitions'[class]].references)

\* C35: when the remover that a release runs for the last reference of a
\* class calls require with a fragment of that class, then once the release
\* has returned the class is installed and the table has a requisition of
\* the class that holds the reference of the handle require returned.
C35_RequireInRemoverInstalls == [][C35_Step]_vars

----------------------------------------------------------------------------
(* Claims on the context that counts. *)

\* The count of the class: that of its requisite in the table, zero when
\* the table has no requisite of the class.
CountOf(class) ==
    IF class \in DOMAIN requisitions
    THEN heap[requisitions[class]].count
    ELSE 0

\* The require calls that returned, registered a fragment of the class, and
\* whose release function has not been called.
UnreleasedHolders(class) ==
    {h \in Unreleased :
         \E i \in 1..Len(handles[h].fragments) :
             handles[h].fragments[i].class.chars = class}

\* C36: in the context that counts, whatever the number of times the release
\* functions are called, the count of a class is at least the number of
\* require calls that registered it and whose release function has not been
\* called, and a class such a call registered stays installed.
C36_CountCoversUnreleased ==
    \A class \in {A, B} :
        /\ CountOf(class) >= Cardinality(UnreleasedHolders(class))
        /\ UnreleasedHolders(class) # {} => Installed(class)

----------------------------------------------------------------------------
(* Claims on two contexts. *)

\* What the m-th context keeps: its insert capability, its table with the
\* requisitions, its classifier.
KeptBy(m) ==
    [insert |-> insert[context(m).insert],
     requisitions |-> requisitions[context(m).requisitions],
     heap |-> heap[context(m).requisitions],
     classifier |-> classifier[context(m).classifier]]

\* What the m-th context has done for its caller: the calls of its inserter
\* and of the removers it returned, the handles, the calls of its classifier.
DoneBy(m) ==
    [inserted |-> inserted[m], removed |-> removed[m],
     handles |-> handles[m], classified |-> classified[m]]

\* The classes of the handles of the n-th context whose release has not been
\* called.
HeldIn(n) ==
    UNION {Elements(handles[n][h].classes) :
               h \in {g \in 1..Len(handles[n]) : g \notin DOMAIN released[n]}}

\* The calls of the classifier of a context of its own that is given the
\* requireables one after another.
RECURSIVE Alone(_, _)
Alone(f, requireables) ==
    IF requireables = <<>> THEN f
    ELSE Alone(fragify(f, Head(requireables)), Tail(requireables))

ClassifiedAlone(requireables) ==
    Alone([classifier |-> Classifier("context", FALSE), classified |-> <<>>,
           fragments |-> <<>>, error |-> "none"], requireables).classified

C37_Step ==
    /\ \A n \in Contexts :
           outcome'.context = n =>
               \A m \in Contexts \ {n} :
                   /\ KeptBy(m)' = KeptBy(m)
                   /\ DoneBy(m)' = DoneBy(m)
    /\ \A n \in Contexts, requireable \in RequireablesC :
           (KeptBy(n).insert = "inserter" /\ RequireCOf(n, requireable)) =>
               /\ outcome'.error = "none"
               /\ Len(inserted'[n]) - Len(inserted[n]) = Cardinality(
                      Elements(handles'[n][Len(handles'[n])].classes)
                          \ HeldIn(n))
    /\ \A n \in Contexts :
           classified'[n] = ClassifiedAlone(calls'[n])

\* C37: of two contexts made by two calls of context(), a require, release
\* or dispose of one leaves the other's insert capability, table,
\* requisitions and classifier as they are and calls neither its inserter
\* nor a remover it returned; a require of an active context calls that
\* context's inserter once for each class none of its own unreleased handles
\* holds, whatever the other context has installed; and the classes a
\* context gives are those it would give if it were the only context.
C37_ContextsShareNothing == [][C37_Step]_vars

\* Both contexts were given the same rule: each called its inserter once,
\* with the same class; the handle of the first was released, its remover
\* ran, and the second context has the class installed.
C37_Witness ==
    /\ outcome.op = "release"
    /\ outcome.context = 1
    /\ calls = <<(<<L1>>), (<<L1>>)>>
    /\ inserted[1] = inserted[2]
    /\ Len(inserted[1]) = 1
    /\ removed = <<(<<1>>), (<<0>>)>>
    /\ DOMAIN requisitions[1] = {}
    /\ DOMAIN requisitions[2] # {}

\* The two contexts were given two rules of two templates of one name: each
\* numbered its template f0.
C37_WitnessIds ==
    /\ calls = <<(<<L1>>), (<<L2>>)>>
    /\ classified[1][1].class = classified[2][1].class
    /\ classified[1][1].styler # classified[2][1].styler

============================================================================
